---------------------------- MODULE Spec2Model ----------------------------
(***************************************************************************)
(* A model of the OMR grading pipeline (src/src/*.py): separator location, *)
(* dimension validation, corner ordering, mark classification, answer      *)
(* aggregation and the per-page processing loop.                           *)
(*                                                                         *)
(* Images and masks are matrices (sequences of rows of intensities),       *)
(* coordinates are 0-based as in the source, sequences are 1-based, so the *)
(* pixel (y, x) of m is m[y + 1][x + 1].                                   *)
(***************************************************************************)
EXTENDS Integers, Sequences, FiniteSets, TLC

VARIABLES
    call,     \* the operation invoked and its arguments
    ret,      \* what the operation returned
    pc,       \* "call" before the operation ran, "return" after; within
              \* process_pdf "start", "loop", "done"
    grader,   \* the OMRGrader object: configuration and mask attributes
    images,   \* process_pdf: the pages convert_from_path produced
    results,  \* process_pdf: the StudentResult list built so far
    log       \* per processed page: the calls made and the exception caught

vars == <<call, ret, pc, grader, images, results, log>>

(***************************************************************************)
(* Bounds of the model.                                                    *)
(***************************************************************************)
MaxQuestions == 2      \* num_questions ranges over 1..MaxQuestions
MaxAnswers == 2        \* num_answers ranges over 1..MaxAnswers
MaxSepCoord == 3       \* validator inputs are increasing lists over 0..MaxSepCoord
MaxMaskH == 8          \* tall grid masks have 1..MaxMaskH rows ...
MaxMaskW == 2          \* ... and 1..MaxMaskW columns, or the transposed shape

SmallRect == 3         \* extent of a rectified image too small for any table
LargeRect == 8         \* extent of a rectified image large enough for 4 separators
MaxPages == 2          \* a document has 0..MaxPages pages
MaxCoord == 2          \* corner points lie on the grid (0..MaxCoord) x (0..MaxCoord)
MaxCellSide == 2       \* classified cells have 0..MaxCellSide rows and columns
TrimCellSide == 3      \* answer cells whose borders are trimmed are squares of this side
MaxStripLen == 3       \* cells compared with each other are strips of 0..MaxStripLen pixels

TableFormats == {"columns=questions", "rows=questions"}
Axes == {"horizontal", "vertical"}
NoRet == "none"

\* ------------------------------------------------------------------------
\* Generic helpers (Python / numpy primitives)
\* ------------------------------------------------------------------------
Max2(a, b) == IF a >= b THEN a ELSE b
Min2(a, b) == IF a <= b THEN a ELSE b

RECURSIVE SumSeq(_)
SumSeq(s) == IF s = <<>> THEN 0 ELSE Head(s) + SumSeq(Tail(s))

\* max(s) of a non-empty sequence
RECURSIVE MaxSeq(_)
MaxSeq(s) == IF Len(s) = 1 THEN s[1] ELSE Max2(s[1], MaxSeq(Tail(s)))

\* a list or numpy array holds its values: a sequence as a stored tuple, and
\* the rows of a matrix as stored tuples
List(s) == s \o <<>>
Array(m) == [y \in 1..Len(m) |-> List(m[y])] \o <<>>

\* s[a:b] for 0 <= a <= b <= len(s)
Slice(s, a, b) == List([k \in 1..(b - a) |-> s[a + k]])

\* np.argmax: 0-based index of the FIRST maximal element of a non-empty sequence
ArgMax(s) == CHOOSE k \in 0..(Len(s) - 1) :
                /\ \A j \in 1..Len(s) : s[j] <= s[k + 1]
                /\ \A j \in 1..k : s[j] < s[k + 1]

\* np.argmin: 0-based index of the FIRST minimal element
ArgMin(s) == CHOOSE k \in 0..(Len(s) - 1) :
                /\ \A j \in 1..Len(s) : s[j] >= s[k + 1]
                /\ \A j \in 1..k : s[j] > s[k + 1]

\* the strictly increasing list of the elements of a set of integers
RECURSIVE SortedSeq(_)
SortedSeq(S) == IF S = {} THEN <<>>
                ELSE LET m == CHOOSE x \in S : \A y \in S : x <= y
                     IN  <<m>> \o SortedSeq(S \ {m})

\* ------------------------------------------------------------------------
\* table_detection.py : validate_table_dimensions
\* ------------------------------------------------------------------------
expected_h_swapped(num_questions, num_answers, table_format) ==
    IF table_format = "columns=questions" THEN num_questions + 2 ELSE num_answers + 2
expected_h(num_questions, num_answers, table_format) ==
    IF table_format = "columns=questions" THEN num_answers + 2 ELSE num_questions + 2

expected_v(num_questions, num_answers, table_format) ==
    IF table_format = "columns=questions" THEN num_questions + 2 ELSE num_answers + 2

\* the f-strings of the two failure returns
MismatchMessageSwapped(axisName, found, expected) ==
    axisName \o " separators mismatch: found " \o ToString(expected)
             \o ", expected " \o ToString(found)
MismatchMessage(axisName, found, expected) ==
    axisName \o " separators mismatch: found " \o ToString(found)
             \o ", expected " \o ToString(expected)

validate_table_dimensions(horizontal_separators, vertical_separators, num_questions, num_answers, table_format) ==
    LET num_h_sep == Len(horizontal_separators)
        num_v_sep == Len(vertical_separators)
        eh == expected_h(num_questions, num_answers, table_format)
        ev == expected_v(num_questions, num_answers, table_format)
    IN  IF num_h_sep # eh
          THEN <<FALSE, MismatchMessage("Horizontal", num_h_sep, eh)>>
          ELSE IF num_v_sep # ev
                 THEN <<FALSE, MismatchMessage("Vertical", num_v_sep, ev)>>
                 ELSE <<TRUE, "Dimensions valid">>

\* ------------------------------------------------------------------------
\* Results of operations that may raise
\* ------------------------------------------------------------------------
Ok(v) == [ok |-> TRUE, value |-> v, error |-> ""]
Raise(msg) == [ok |-> FALSE, value |-> <<>>, error |-> msg]

\* ------------------------------------------------------------------------
\* table_detection.py : extract_separators and its two modes
\* ------------------------------------------------------------------------
Rows(m) == Len(m)                                   \* m.shape[0]
Cols(m) == IF Len(m) = 0 THEN 0 ELSE Len(m[1])      \* m.shape[1]

Transpose(m) == Array([x \in 1..Cols(m) |-> [y \in 1..Rows(m) |-> m[y][x]]])

\* np.sum(grid_mask, axis=1): one sum per row
RowSums(m) == List([y \in 1..Rows(m) |-> SumSeq(m[y])])
\* np.sum(grid_mask, axis=0): one sum per column
ColSums(m) == List([x \in 1..Cols(m) |-> SumSeq(List([y \in 1..Rows(m) |-> m[y][x]]))])

\* signal / np.max(signal) if np.max(signal) > 0 else signal.
\* The quotient is kept exact: the samples are num[k] / den.
Normalize(raw) ==
    LET mx == MaxSeq(raw)
    IN  IF mx > 0 THEN [num |-> raw, den |-> mx] ELSE [num |-> raw, den |-> 1]

\* expected number of separators on an axis (lines 116-126)
ExpectedCountOffByOne(axis, num_questions, num_answers, table_format) ==
    IF axis = "horizontal"
      THEN IF table_format = "columns=questions"
             THEN num_answers + 1 ELSE num_questions + 1
      ELSE IF table_format = "columns=questions"
             THEN num_questions + 1 ELSE num_answers + 1
ExpectedCount(axis, num_questions, num_answers, table_format) ==
    IF axis = "horizontal"
      THEN IF table_format = "columns=questions"
             THEN num_answers + 2 ELSE num_questions + 2
      ELSE IF table_format = "columns=questions"
             THEN num_questions + 2 ELSE num_answers + 2

\* window_size = int(expected_spacing * 0.4), expected_spacing = size / (count - 1)
WindowSizeWholeSpacing(size, expected_count) == size \div (expected_count - 1)
WindowSize(size, expected_count) == (2 * size) \div (5 * (expected_count - 1))

SearchStartFromZero(i, size, expected_count) == 0

\* int(i * expected_spacing - window_size) clipped below by 0;
\* int() truncates toward zero and the difference is negative only for i = 0
SearchStart(i, size, expected_count) ==
    LET w == WindowSize(size, expected_count)
        d == (i * size) \div (expected_count - 1) - w
    IN  IF i = 0 THEN 0 ELSE Max2(0, d)

\* int(i * expected_spacing + window_size) clipped above by size
SearchEnd(i, size, expected_count) ==
    Min2(size, (i * size) \div (expected_count - 1) + WindowSize(size, expected_count))

\* the loop of lines 135-145, from expected position i on
RECURSIVE UniformLoop(_, _, _, _)
UniformLoop(signal, size, expected_count, i) ==
    IF i >= expected_count THEN <<>>
    ELSE LET search_start == SearchStart(i, size, expected_count)
             search_end == SearchEnd(i, size, expected_count)
             rest == UniformLoop(signal, size, expected_count, i + 1)
         IN  IF search_start < search_end
               THEN <<search_start + ArgMax(Slice(signal.num, search_start, search_end))>>
                    \o rest
               ELSE rest

_extract_separators_uniform_spacing(signal, size, axis, num_questions, num_answers, table_format) ==
    UniformLoop(signal, size,
                ExpectedCount(axis, num_questions, num_answers, table_format), 0)

\* int(np.mean(cluster)) of a non-empty cluster of coordinates >= 0
Centroid(cluster) == SumSeq(cluster) \div Len(cluster)

\* the loop of lines 74-86 over peaks[i..], current_cluster being open
RECURSIVE MergeLoop(_, _, _, _)
MergeLoop(peaks, i, current_cluster, gap_threshold) ==
    IF i > Len(peaks) THEN <<Centroid(current_cluster)>>
    ELSE IF peaks[i] - peaks[i - 1] <= gap_threshold
           THEN MergeLoop(peaks, i + 1, Append(current_cluster, peaks[i]), gap_threshold)
           ELSE <<Centroid(current_cluster)>>
                \o MergeLoop(peaks, i + 1, <<peaks[i]>>, gap_threshold)

GapThreshold == 5

_merge_peaks(peaks) ==
    IF Len(peaks) = 0 THEN <<>>
    ELSE MergeLoop(peaks, 2, <<peaks[1]>>, GapThreshold)

\* np.where(signal > 0.3)[0]: the coordinates whose sample exceeds 3/10
PeakThresholdNum == 3
PeakThresholdDen == 10
PeaksAtOrAbove(signal) ==
    SortedSeq({k \in 0..(Len(signal.num) - 1) :
                 PeakThresholdDen * signal.num[k + 1] >= PeakThresholdNum * signal.den})
PeaksAbove(signal) ==
    SortedSeq({k \in 0..(Len(signal.num) - 1) :
                 PeakThresholdDen * signal.num[k + 1] > PeakThresholdNum * signal.den})

_extract_separators_peak_detection_silent(signal) ==
    Ok(_merge_peaks(PeaksAbove(signal)))
_extract_separators_peak_detection(signal) ==
    LET peaks == PeaksAbove(signal)
    IN  IF Len(peaks) = 0
          THEN Raise("No peaks found in signal - grid mask may be empty")
          ELSE Ok(_merge_peaks(peaks))

\* None is modelled by the falsy values 0 and ""
extract_separators(grid_mask, axis, num_questions, num_answers, table_format) ==
    IF axis \notin {"horizontal", "vertical"}
      THEN Raise("Invalid axis: " \o axis)
      ELSE LET raw == IF axis = "horizontal" THEN RowSums(grid_mask)
                                              ELSE ColSums(grid_mask)
               size == IF axis = "horizontal" THEN Rows(grid_mask)
                                               ELSE Cols(grid_mask)
               signal == Normalize(raw)
           IN  IF num_questions # 0 /\ num_answers # 0 /\ table_format # ""
                 THEN Ok(_extract_separators_uniform_spacing(
                             signal, size, axis, num_questions, num_answers,
                             table_format))
                 ELSE _extract_separators_peak_detection(signal)

\* ------------------------------------------------------------------------
\* table_detection.py : detect_filled_cell
\* ------------------------------------------------------------------------
\* cell_image.size
Size(m) == Rows(m) * Cols(m)

\* np.sum(cell_image > 128)
RECURSIVE CountAbove(_, _)
CountAbove(row, level) ==
    IF row = <<>> THEN 0
    ELSE (IF Head(row) > level THEN 1 ELSE 0) + CountAbove(Tail(row), level)

WhitePixels(m) == SumSeq(List([y \in 1..Rows(m) |-> CountAbove(m[y], 128)]))

\* ink_threshold: float = 0.15, kept as the exact fraction 15/100
DefaultInkThreshold == [num |-> 15, den |-> 100]

\* ink_fraction >= ink_threshold with ink_fraction = white_pixels / total_pixels
detect_filled_cell_dark(cell_image, ink_threshold) ==
    IF Size(cell_image) = 0 THEN FALSE
    ELSE (Size(cell_image) - WhitePixels(cell_image)) * ink_threshold.den
             >= ink_threshold.num * Size(cell_image)
detect_filled_cell_strict(cell_image, ink_threshold) ==
    IF Size(cell_image) = 0 THEN FALSE
    ELSE WhitePixels(cell_image) * ink_threshold.den
             > ink_threshold.num * Size(cell_image)
detect_filled_cell(cell_image, ink_threshold) ==
    IF Size(cell_image) = 0 THEN FALSE
    ELSE WhitePixels(cell_image) * ink_threshold.den
             >= ink_threshold.num * Size(cell_image)

\* ------------------------------------------------------------------------
\* image_preprocessing.py : order_corners
\* ------------------------------------------------------------------------
\* a point is <<x, y>>; pts.sum(axis=1) and np.diff(pts, axis=1)
order_corners(corners) ==
    LET pts == corners
        s == [k \in 1..4 |-> pts[k][1] + pts[k][2]]
        diff == [k \in 1..4 |-> pts[k][2] - pts[k][1]]
        tl == pts[ArgMin(s) + 1]
        br == pts[ArgMax(s) + 1]
        tr == pts[ArgMin(diff) + 1]
        bl == pts[ArgMax(diff) + 1]
    IN  <<tl, tr, br, bl>>

\* ------------------------------------------------------------------------
\* image_preprocessing.py : extract_line_masks
\* ------------------------------------------------------------------------
\* max(int(extent * kernel_scale), 3) with kernel_scale = 0.02, made odd
KernelSize(extent) ==
    LET k == Max2((2 * extent) \div 100, 3)
    IN  IF k % 2 = 1 THEN k ELSE k + 1

RECURSIVE MinSeq(_)
MinSeq(s) == IF Len(s) = 1 THEN s[1] ELSE Min2(s[1], MinSeq(Tail(s)))

\* cv2 erosion / dilation of one row by a centred 1 x k line; pixels outside
\* the image do not take part (cv2's default border for morphology)
ErodeRow(row, k) ==
    LET r == (k - 1) \div 2
    IN  List([x \in 1..Len(row) |->
            MinSeq(Slice(row, Max2(1, x - r) - 1, Min2(Len(row), x + r)))])
DilateRow(row, k) ==
    LET r == (k - 1) \div 2
    IN  List([x \in 1..Len(row) |->
            MaxSeq(Slice(row, Max2(1, x - r) - 1, Min2(Len(row), x + r)))])

\* cv2.morphologyEx(image, cv2.MORPH_OPEN, kernel): erosion, then dilation
OpenRows(m, k) == Array([y \in 1..Rows(m) |-> DilateRow(ErodeRow(m[y], k), k)])

\* bitwise or of two 8-bit intensities
RECURSIVE BitOr(_, _, _)
BitOr(a, b, bits) ==
    IF bits = 0 THEN 0
    ELSE (IF a % 2 = 1 \/ b % 2 = 1 THEN 1 ELSE 0)
         + 2 * BitOr(a \div 2, b \div 2, bits - 1)

\* cv2.bitwise_or(horizontal_mask, vertical_mask)
BitwiseOr(horizontal_mask, vertical_mask) ==
    Array([y \in 1..Rows(horizontal_mask) |-> [x \in 1..Cols(horizontal_mask) |->
              BitOr(horizontal_mask[y][x], vertical_mask[y][x], 8)]])

\* the three masks of the return statement, the third from the first two
LineMasks(horizontal_mask, vertical_mask) ==
    <<horizontal_mask, vertical_mask, BitwiseOr(horizontal_mask, vertical_mask)>>

\* returns <<horizontal_mask, vertical_mask, grid_mask>>
extract_line_masks(image) ==
    LineMasks(OpenRows(image, KernelSize(Cols(image))),
              Transpose(OpenRows(Transpose(image), KernelSize(Rows(image)))))

\* ------------------------------------------------------------------------
\* image_preprocessing.py : find_table_bounding_box
\* ------------------------------------------------------------------------
\* cv2.findContours yields no contour exactly when the mask has no foreground
HasContours(grid_mask) ==
    \E y \in 1..Rows(grid_mask) : \E x \in 1..Cols(grid_mask) : grid_mask[y][x] # 0

find_table_bounding_box_any(grid_mask) == Ok("contour")
find_table_bounding_box(grid_mask) ==
    IF ~HasContours(grid_mask)
      THEN Raise("No contours found in grid mask")
      ELSE Ok("contour")

\* ------------------------------------------------------------------------
\* table_detection.py : extract_cell_regions, get_question_cells
\* ------------------------------------------------------------------------
\* sorted(list)
RECURSIVE Insert(_, _)
Insert(x, s) == IF s = <<>> THEN <<x>>
                ELSE IF x <= Head(s) THEN <<x>> \o s
                ELSE <<Head(s)>> \o Insert(x, Tail(s))
Unsorted(s) == s
RECURSIVE Sorted(_)
Sorted(s) == IF s = <<>> THEN <<>> ELSE Insert(Head(s), Sorted(Tail(s)))

\* image[y1:y2, x1:x2] for 0 <= y1, x1 (an empty range gives no rows / columns)
SubImage(image, y1, y2, x1, x2) ==
    Array([y \in 1..Max2(0, Min2(y2, Rows(image)) - y1) |->
              [x \in 1..Max2(0, Min2(x2, Cols(image)) - x1) |-> image[y1 + y][x1 + x]]])

\* the length of image[a:b] along an axis of n pixels, 0 <= a
SliceLen(a, b, n) == Max2(0, Min2(b, n) - a)

\* line 244, np.array(cells, dtype=object): numpy takes the dimensions the
\* cells' shapes agree on as dimensions of the array and fails with
\* "could not broadcast input array" when the cells agree on their number of
\* rows but not on their number of columns
CellsStack(cell_heights, cell_widths) ==
    ~(Cardinality(cell_heights) = 1 /\ Cardinality(cell_widths) > 1)

\* cells[i][j] (1-based here) is the sub-image between separators i, i+1 and j, j+1
extract_cell_regions(rectified_image, horizontal_separators, vertical_separators) ==
    LET h_sep == Sorted(horizontal_separators)
        v_sep == Sorted(vertical_separators)
        cells == Array([i \in 1..(Len(h_sep) - 1) |-> [j \in 1..(Len(v_sep) - 1) |->
                     SubImage(rectified_image, h_sep[i], h_sep[i + 1],
                              v_sep[j], v_sep[j + 1])]])
        cell_heights == IF Len(v_sep) < 2 THEN {}
                        ELSE {SliceLen(h_sep[i], h_sep[i + 1], Rows(rectified_image)) :
                                 i \in 1..(Len(h_sep) - 1)}
        cell_widths == IF Len(h_sep) < 2 THEN {}
                       ELSE {SliceLen(v_sep[j], v_sep[j + 1], Cols(rectified_image)) :
                                j \in 1..(Len(v_sep) - 1)}
    IN  IF CellsStack(cell_heights, cell_widths)
          THEN Ok(cells)
          ELSE Raise("could not broadcast input array")

GridRows(cell_grid) == Len(cell_grid)
GridCols(cell_grid) == IF Len(cell_grid) = 0 THEN 0 ELSE Len(cell_grid[1])

get_question_cells_unshifted(cell_grid, question_index, table_format) ==
    IF table_format = "columns=questions"
      THEN IF question_index >= GridCols(cell_grid)
             THEN Raise("index out of bounds")
             ELSE Ok(List([a \in 1..(GridRows(cell_grid) - 1) |->
                              cell_grid[a + 1][question_index + 1]]))
    ELSE IF table_format = "rows=questions"
      THEN IF question_index >= GridRows(cell_grid)
             THEN Raise("index out of bounds")
             ELSE Ok(List([a \in 1..(GridCols(cell_grid) - 1) |->
                              cell_grid[question_index + 1][a + 1]]))
    ELSE Raise("Invalid table format: " \o table_format)

\* cell_grid[1:, question_index + 1] or cell_grid[question_index + 1, 1:];
\* an index outside the grid is numpy's IndexError
get_question_cells(cell_grid, question_index, table_format) ==
    IF table_format = "columns=questions"
      THEN IF question_index + 1 >= GridCols(cell_grid)
             THEN Raise("index out of bounds")
             ELSE Ok(List([a \in 1..(GridRows(cell_grid) - 1) |->
                              cell_grid[a + 1][question_index + 2]]))
    ELSE IF table_format = "rows=questions"
      THEN IF question_index + 1 >= GridRows(cell_grid)
             THEN Raise("index out of bounds")
             ELSE Ok(List([a \in 1..(GridCols(cell_grid) - 1) |->
                              cell_grid[question_index + 2][a + 1]]))
    ELSE Raise("Invalid table format: " \o table_format)

\* trim_cell_borders(cell, margin_percent): the cell without a margin of
\* int(extent * margin_percent / 100) pixels on each of its four sides
trim_cell_borders(cell, margin_percent) ==
    LET my == (Rows(cell) * margin_percent) \div 100
        mx == (Cols(cell) * margin_percent) \div 100
    IN  SubImage(cell, my, Rows(cell) - my, mx, Cols(cell) - mx)

\* ------------------------------------------------------------------------
\* omr_grader.py : OMRGrader._extract_student_answers
\* ------------------------------------------------------------------------
\* lines 291-292: what detect_filled_cell answers for the trimmed cells of one
\* question, in option order
DecisionsUntrimmed(question_cells, cell_margin_trim) ==
    List([a \in 1..Len(question_cells) |->
             detect_filled_cell(question_cells[a], DefaultInkThreshold)])
Decisions(question_cells, cell_margin_trim) ==
    List([a \in 1..Len(question_cells) |->
             detect_filled_cell(trim_cell_borders(question_cells[a], cell_margin_trim),
                                DefaultInkThreshold)])

\* lines 288-294: the indices a_idx of the cells classified as filled, in option order
RECURSIVE FilledIndicesOneBased(_, _)
FilledIndicesOneBased(decisions, a_idx) ==
    IF a_idx >= Len(decisions) THEN <<>>
    ELSE (IF decisions[a_idx + 1] THEN <<a_idx + 1>> ELSE <<>>)
         \o FilledIndicesOneBased(decisions, a_idx + 1)
RECURSIVE FilledIndices(_, _)
FilledIndices(decisions, a_idx) ==
    IF a_idx >= Len(decisions) THEN <<>>
    ELSE (IF decisions[a_idx + 1] THEN <<a_idx>> ELSE <<>>)
         \o FilledIndices(decisions, a_idx + 1)

\* lines 297-307: the answer code of one question
AnswerCodeFirstOfMany(filled_indices) ==
    IF Len(filled_indices) = 0 THEN -1 ELSE filled_indices[1]
AnswerCode(filled_indices) ==
    IF Len(filled_indices) = 0 THEN -1
    ELSE IF Len(filled_indices) = 1 THEN filled_indices[1]
    ELSE -2

\* one pass of the loop over the questions (lines 285-307): acc holds
\* student_answers and has_ambiguous; filled_indices starts empty every time
QuestionStepSticky(acc, filled_indices) ==
    [student_answers |-> Append(acc.student_answers,
                                IF acc.has_ambiguous THEN -2
                                ELSE AnswerCode(filled_indices)),
     has_ambiguous |-> acc.has_ambiguous \/ Len(filled_indices) >= 2]
QuestionStep(acc, filled_indices) ==
    [student_answers |-> Append(acc.student_answers, AnswerCode(filled_indices)),
     has_ambiguous |-> acc.has_ambiguous \/ Len(filled_indices) >= 2]

RECURSIVE QuestionLoop(_, _, _, _, _)
QuestionLoop(self, cell_grid, cell_margin_trim, q_idx, acc) ==
    IF q_idx >= self.num_questions THEN Ok(acc)
    ELSE LET question_cells == get_question_cells(cell_grid, q_idx, self.table_format)
         IN  IF ~question_cells.ok THEN question_cells
             ELSE QuestionLoop(self, cell_grid, cell_margin_trim, q_idx + 1,
                               QuestionStep(acc,
                                   FilledIndices(Decisions(question_cells.value,
                                                           cell_margin_trim), 0)))

\* preprocessed is preprocess_image(rectified_image); returns
\* [student_answers, has_ambiguous] or what was raised
_extract_student_answers(self, preprocessed, horizontal_separators, vertical_separators, cell_margin_trim) ==
    LET cell_grid == extract_cell_regions(preprocessed, horizontal_separators,
                                          vertical_separators)
    IN  IF ~cell_grid.ok THEN cell_grid
        ELSE QuestionLoop(self, cell_grid.value, cell_margin_trim, 0,
                          [student_answers |-> <<>>, has_ambiguous |-> FALSE])

\* ------------------------------------------------------------------------
\* grading.py : GradingRule, grade_student_answers, StudentResult
\* ------------------------------------------------------------------------
\* points are kept in hundredths: 1.0, -0.25, 0.0
DefaultGradingRule ==
    [correct_points |-> 100, incorrect_points |-> -25, no_answer_points |-> 0]

grade_question_swapped(rule, answer_index, correct_index) ==
    IF answer_index = -1 THEN rule.no_answer_points
    ELSE IF answer_index = correct_index THEN rule.incorrect_points
    ELSE rule.correct_points
grade_question(rule, answer_index, correct_index) ==
    IF answer_index = -1 THEN rule.no_answer_points
    ELSE IF answer_index = correct_index THEN rule.correct_points
    ELSE rule.incorrect_points

\* returns <<question_scores, total_score, has_issues>>; zip stops at the
\* shorter of the two lists
grade_student_answers_unanswered(student_answers, correct_answers, grading_rule) ==
    LET n == Min2(Len(student_answers), Len(correct_answers))
        question_scores ==
            List([i \in 1..n |->
                    IF student_answers[i] = -2 THEN grading_rule.no_answer_points
                    ELSE grade_question(grading_rule, student_answers[i],
                                        correct_answers[i])])
        has_issues == \E i \in 1..n : student_answers[i] = -2
    IN  <<question_scores, SumSeq(question_scores), has_issues>>
grade_student_answers(student_answers, correct_answers, grading_rule) ==
    LET n == Min2(Len(student_answers), Len(correct_answers))
        question_scores ==
            List([i \in 1..n |->
                    IF student_answers[i] = -2 THEN 0
                    ELSE grade_question(grading_rule, student_answers[i],
                                        correct_answers[i])])
        has_issues == \E i \in 1..n : student_answers[i] = -2
    IN  <<question_scores, SumSeq(question_scores), has_issues>>

\* StudentResult.__init__
StudentResult(student_id) ==
    [student_id |-> student_id,
     question_scores |-> <<>>,
     total_score |-> 0,
     has_extraction_issues |-> FALSE,
     has_ambiguous_answers |-> FALSE,
     error_message |-> "",
     student_answers |-> <<>>]

\* "; ".join(flags)
RECURSIVE Join(_, _)
Join(sep, strs) ==
    IF Len(strs) = 0 THEN ""
    ELSE IF Len(strs) = 1 THEN strs[1]
    ELSE strs[1] \o sep \o Join(sep, Tail(strs))

\* StudentResult._get_issues_flag
_get_issues_flag_message_first(self) ==
    LET flags == (IF self.error_message # "" THEN <<self.error_message>> ELSE <<>>)
                 \o (IF self.has_extraction_issues THEN <<"extraction_issues">> ELSE <<>>)
                 \o (IF self.has_ambiguous_answers THEN <<"ambiguous_answers">> ELSE <<>>)
    IN  IF Len(flags) > 0 THEN Join("; ", flags) ELSE "OK"
_get_issues_flag(self) ==
    LET flags == (IF self.has_extraction_issues THEN <<"extraction_issues">> ELSE <<>>)
                 \o (IF self.has_ambiguous_answers THEN <<"ambiguous_answers">> ELSE <<>>)
                 \o (IF self.error_message # "" THEN <<self.error_message>> ELSE <<>>)
    IN  IF Len(flags) > 0 THEN Join("; ", flags) ELSE "OK"

\* StudentResult.to_dict: the dictionary as its <<key, value>> items in
\* insertion order
to_dict(self) ==
    <<<<"student_id", self.student_id>>,
      <<"total_score", self.total_score>>,
      <<"issues", _get_issues_flag(self)>>>>
    \o List([i \in 1..Len(self.question_scores) |->
                <<"question_" \o ToString(i) \o "_score", self.question_scores[i]>>])

\* ------------------------------------------------------------------------
\* omr_grader.py : OMRGrader
\* ------------------------------------------------------------------------
(***************************************************************************)
(* A page is what the library calls make of the page image:                *)
(*   fault        the library call that raises on this page, or "none"     *)
(*   preprocessed preprocess_image(image)                                  *)
(*   rect_bin     the rectified preprocessed image                         *)
(*   rect_pre     preprocess_image of the rectified colour image           *)
(*   debug        how rendering and writing the debug image ends           *)
(* rect_bin and the rectified colour image come from the same corners and  *)
(* have the same shape.                                                    *)
(***************************************************************************)
Unset == [set |-> FALSE, mask |-> <<>>]
Stored(mask) == [set |-> TRUE, mask |-> mask]

\* the mask attributes an OMRGrader has after __init__: none
NoMaskFields ==
    [_current_h_mask |-> Unset, _current_v_mask |-> Unset, _current_grid_mask |-> Unset,
     _last_h_mask |-> Unset, _last_v_mask |-> Unset, _last_grid_mask |-> Unset]

\* OMRGrader.__init__: the configuration is stored, then checked
OMRGrader(correct_answers, num_questions, num_answers, table_format, grading_rule) ==
    IF Len(correct_answers) # num_questions
      THEN Raise("Number of correct answers doesn't match num_questions")
    ELSE IF table_format \notin {"columns=questions", "rows=questions"}
      THEN Raise("Invalid table format: " \o table_format)
    ELSE Ok([correct_answers |-> correct_answers,
             num_questions |-> num_questions,
             num_answers |-> num_answers,
             table_format |-> table_format,
             grading_rule |-> grading_rule,
             fields |-> NoMaskFields])

\* returns [out, fields]: out is Ok of the rectified images and the page's
\* masks, or what was raised; fields are the object's mask attributes after
_detect_table(self, page) ==
    IF page.fault = "preprocess_image"
      THEN [out |-> Raise("cv2.error: preprocess_image"), fields |-> self.fields]
    ELSE LET masks == extract_line_masks(page.preprocessed)
             box == find_table_bounding_box(masks[3])
         IN  IF ~box.ok THEN [out |-> box, fields |-> self.fields]
             ELSE IF page.fault = "perspective_correction"
               THEN [out |-> Raise("cv2.error: perspective_correction"),
                     fields |-> self.fields]
             ELSE [out |-> Ok([rectified_color |-> page.rect_pre,
                               grid_mask |-> page.rect_bin,
                               h_mask |-> masks[1],
                               v_mask |-> masks[2],
                               full_grid_mask |-> masks[3]]),
                   fields |-> [self.fields EXCEPT
                                  !._last_h_mask = Stored(masks[1]),
                                  !._last_v_mask = Stored(masks[2]),
                                  !._last_grid_mask = Stored(masks[3])]]

\* both separator lists of a grid mask: Ok(<<horizontal, vertical>>) or what was raised
BothSeparators(self, grid_mask) ==
    LET h == extract_separators(grid_mask, "horizontal", self.num_questions,
                                self.num_answers, self.table_format)
        v == extract_separators(grid_mask, "vertical", self.num_questions,
                                self.num_answers, self.table_format)
    IN  IF ~h.ok THEN h ELSE IF ~v.ok THEN v ELSE Ok(<<h.value, v.value>>)

\* Ok(<<is_valid, message>>) or what was raised
_validate_table(self, rectified_image, grid_mask) ==
    LET grid_mask_rectified == extract_line_masks(grid_mask)[3]
        seps == BothSeparators(self, grid_mask_rectified)
    IN  IF ~seps.ok THEN seps
        ELSE Ok(validate_table_dimensions(seps.value[1], seps.value[2],
                                          self.num_questions, self.num_answers,
                                          self.table_format))

\* the rectified image is in colour, so preprocess_image is called on it
_extract_separators_from_rectified_by_peaks(self, page) ==
    LET grid_mask == extract_line_masks(page.rect_pre)[3]
        h == extract_separators(grid_mask, "horizontal", 0, 0, "")
        v == extract_separators(grid_mask, "vertical", 0, 0, "")
    IN  IF ~h.ok THEN h ELSE IF ~v.ok THEN v ELSE Ok(<<h.value, v.value>>)
_extract_separators_from_rectified(self, page) ==
    IF page.fault = "preprocess_rectified"
      THEN Raise("cv2.error: preprocess_image")
      ELSE BothSeparators(self, extract_line_masks(page.rect_pre)[3])

\* the trace entry of one debug rendering: rendered and saved, rendered and
\* not written, or failed in rendering; nothing is raised and nothing returned
_create_debug_image(page) == "debug:" \o page.debug

\* the except clause of process_student_page (lines 155-157)
CaughtSilently(result, fields, trace, exc) ==
    [result |-> result,
     fields |-> fields,
     trace |-> trace,
     caught |-> <<exc.error>>]
Caught(result, fields, trace, exc) ==
    [result |-> [result EXCEPT !.has_extraction_issues = TRUE,
                               !.error_message = exc.error],
     fields |-> fields,
     trace |-> trace,
     caught |-> <<exc.error>>]

\* the return statements
Returned(result, fields, trace) ==
    [result |-> result, fields |-> fields, trace |-> trace, caught |-> <<>>]

\* lines 97-116: the validator failed with `message`
AfterMismatchPropagating(self, page, result, fields, trace, message) ==
    LET flagged == [result EXCEPT !.has_extraction_issues = TRUE,
                                  !.error_message = message]
        seps == _extract_separators_from_rectified(self, page)
    IN  IF ~seps.ok
          THEN Caught(flagged, fields,
                      trace \o <<"_extract_separators_from_rectified">>, seps)
          ELSE Returned(flagged, fields,
                        trace \o <<"_extract_separators_from_rectified",
                                   _create_debug_image(page)>>)
AfterMismatch(self, page, result, fields, trace, message) ==
    LET flagged == [result EXCEPT !.has_extraction_issues = TRUE,
                                  !.error_message = message]
        seps == _extract_separators_from_rectified(self, page)
    IN  IF ~seps.ok
          THEN Returned(flagged, fields,
                        trace \o <<"_extract_separators_from_rectified">>)
          ELSE Returned(flagged, fields,
                        trace \o <<"_extract_separators_from_rectified",
                                   _create_debug_image(page)>>)

\* lines 118-153: the validator passed
AfterValidDebugRaises(self, page, result, fields, trace, cell_margin_trim) ==
    LET seps == _extract_separators_from_rectified(self, page)
        t2 == trace \o <<"_extract_separators_from_rectified", "_extract_student_answers">>
        ans == _extract_student_answers(self, page.rect_pre, seps.value[1], seps.value[2], cell_margin_trim)
        graded == grade_student_answers(ans.value.student_answers,
                                        self.correct_answers, self.grading_rule)
        stored == [result EXCEPT !.question_scores = graded[1],
                                 !.total_score = graded[2],
                                 !.student_answers = ans.value.student_answers,
                                 !.has_ambiguous_answers = ans.value.has_ambiguous]
        t3 == t2 \o <<"grade_student_answers", _create_debug_image(page)>>
    IN  IF ~seps.ok THEN Caught(result, fields, trace, seps)
        ELSE IF page.fault = "extract_cell_regions" \/ ~ans.ok
          THEN Caught(result, fields, t2, Raise("could not broadcast input array"))
        ELSE IF page.debug = "render_failed"
          THEN Caught(stored, fields, t3, Raise("cv2.error: debug rendering"))
        ELSE Returned(stored, fields, t3)
AfterValid(self, page, result, fields, trace, cell_margin_trim) ==
    LET seps == _extract_separators_from_rectified(self, page)
        t1 == trace \o <<"_extract_separators_from_rectified">>
        t2 == t1 \o <<"_extract_student_answers">>
    IN  IF ~seps.ok THEN Caught(result, fields, t1, seps)
        ELSE IF page.fault = "extract_cell_regions"
          \* np.array(cells, dtype=object) on cells numpy cannot stack
          THEN Caught(result, fields, t2,
                      Raise("could not broadcast input array"))
        ELSE LET ans == _extract_student_answers(self, page.rect_pre, seps.value[1], seps.value[2], cell_margin_trim)
             IN  IF ~ans.ok THEN Caught(result, fields, t2, ans)
                 ELSE LET graded == grade_student_answers(
                                        ans.value.student_answers,
                                        self.correct_answers, self.grading_rule)
                          stored == [result EXCEPT
                                        !.question_scores = graded[1],
                                        !.total_score = graded[2],
                                        !.student_answers = ans.value.student_answers,
                                        !.has_ambiguous_answers = ans.value.has_ambiguous]
                      IN  Returned(stored, fields,
                                   t2 \o <<"grade_student_answers",
                                           _create_debug_image(page)>>)

\* returns [result, fields, trace, caught]: the StudentResult, the object's
\* mask attributes afterwards, the calls made in order, and the text of the
\* exception that reached the except clause (<<>> if none did)
process_student_page_unvalidated(self, page, student_id, cell_margin_trim) ==
    LET result == StudentResult(student_id)
        det == _detect_table(self, page)
        t0 == <<"_detect_table">>
    IN  IF ~det.out.ok THEN Caught(result, det.fields, t0, det.out)
        ELSE LET d == det.out.value
                 fields == [det.fields EXCEPT
                               !._current_h_mask = Stored(d.h_mask),
                               !._current_v_mask = Stored(d.v_mask),
                               !._current_grid_mask = Stored(d.full_grid_mask)]
                 me == [self EXCEPT !.fields = fields]
                 val == _validate_table(me, d.rectified_color, d.grid_mask)
                 t1 == t0 \o <<"_validate_table">>
             IN  IF ~val.ok THEN Caught(result, fields, t1, val)
                 ELSE AfterValid(me, page, result, fields, t1, cell_margin_trim)
process_student_page(self, page, student_id, cell_margin_trim) ==
    LET result == StudentResult(student_id)
        det == _detect_table(self, page)
        t0 == <<"_detect_table">>
    IN  IF ~det.out.ok THEN Caught(result, det.fields, t0, det.out)
        ELSE LET d == det.out.value
                 fields == [det.fields EXCEPT
                               !._current_h_mask = Stored(d.h_mask),
                               !._current_v_mask = Stored(d.v_mask),
                               !._current_grid_mask = Stored(d.full_grid_mask)]
                 me == [self EXCEPT !.fields = fields]
                 val == _validate_table(me, d.rectified_color, d.grid_mask)
                 t1 == t0 \o <<"_validate_table">>
             IN  IF ~val.ok THEN Caught(result, fields, t1, val)
                 ELSE IF ~val.value[1]
                   THEN AfterMismatch(me, page, result, fields, t1, val.value[2])
                   ELSE AfterValid(me, page, result, fields, t1, cell_margin_trim)

\* f"student_{page_idx + 1:03d}"
StudentId(page_idx) ==
    LET n == page_idx + 1
    IN  "student_" \o (IF n < 10 THEN "00" ELSE IF n < 100 THEN "0" ELSE "")
                   \o ToString(n)

\* cell_margin_trim = 20. in process_pdf
CellMarginTrim == 20

\* ------------------------------------------------------------------------
\* Call harness: one operation applied to inputs drawn from bounded sets
\* ------------------------------------------------------------------------
\* the state of the pipeline while a single function is exercised
NoGrader ==
    /\ grader = "none"
    /\ images = <<>>
    /\ results = <<>>
    /\ log = <<>>

SepLists == {SortedSeq(S) : S \in SUBSET (0..MaxSepCoord)}

ValidateCalls ==
    [op : {"validate_table_dimensions"},
     horizontal_separators : SepLists,
     vertical_separators : SepLists,
     num_questions : 1..MaxQuestions,
     num_answers : 1..MaxAnswers,
     table_format : TableFormats]

InitValidate ==
    /\ call \in ValidateCalls
    /\ ret = NoRet
    /\ pc = "call"
    /\ NoGrader

ValidateTableDimensions ==
    /\ pc = "call"
    /\ call.op = "validate_table_dimensions"
    /\ ret' = validate_table_dimensions(call.horizontal_separators,
                                        call.vertical_separators,
                                        call.num_questions, call.num_answers,
                                        call.table_format)
    /\ pc' = "return"
    /\ UNCHANGED <<call, grader, images, results, log>>

SpecValidate == InitValidate /\ [][ValidateTableDimensions]_vars

\* A grid mask of h rows and w columns whose foreground (255) is the union of
\* the full rows in `rows` and the full columns in `cols` (0-based)
GridMask(h, w, rows, cols) ==
    [y \in 1..h |-> [x \in 1..w |->
        IF (y - 1) \in rows \/ (x - 1) \in cols THEN 255 ELSE 0]]

\* tall masks (up to MaxMaskH by MaxMaskW) and their transposes
TallMasks ==
    UNION {UNION {{GridMask(h, w, rows, cols) :
                      rows \in SUBSET (0..(h - 1)), cols \in SUBSET (0..(w - 1))} :
                  w \in 1..MaxMaskW} : h \in 1..MaxMaskH}
GridMasks == TallMasks \cup {Transpose(m) : m \in TallMasks}

ExtractCalls ==
    [op : {"extract_separators"},
     grid_mask : GridMasks,
     axis : Axes,
     num_questions : 1..MaxQuestions,
     num_answers : 1..MaxAnswers,
     table_format : TableFormats]

InitExtract ==
    /\ call \in ExtractCalls
    /\ ret = NoRet
    /\ pc = "call"
    /\ NoGrader

ExtractSeparators ==
    /\ pc = "call"
    /\ call.op = "extract_separators"
    /\ ret' = extract_separators(call.grid_mask, call.axis, call.num_questions,
                                 call.num_answers, call.table_format)
    /\ pc' = "return"
    /\ UNCHANGED <<call, grader, images, results, log>>

SpecExtract == InitExtract /\ [][ExtractSeparators]_vars

\* ------------------------------------------------------------------------
\* extract_separators without a Table Shape (peak detection)
\* ------------------------------------------------------------------------
\* masks one pixel wide whose samples are 0, 3 and 10, so that a sample can
\* lie below, at (3 of 10) and above (3 of 3) 30% of the peak
SampleLevels == {0, 3, 10}

\* a call without a Table Shape, or with one of num_questions, num_answers
\* and table_format missing (None is modelled by 0 and ""), on a column of up to MaxMaskH samples or on its
\* transpose
InitFallback ==
    /\ \E h \in 1..MaxMaskH : \E samples \in [1..h -> SampleLevels] :
       \E axis \in Axes :
       \E nq \in {0, 1} : \E na \in {0, 1} : \E f \in {"", "columns=questions"} :
          /\ <<nq, na, f>> \in {<<0, 0, "">>, <<0, 1, "columns=questions">>,
                                 <<1, 0, "columns=questions">>, <<1, 1, "">>}
          /\ call = [op |-> "extract_separators",
                     grid_mask |-> IF axis = "horizontal"
                                     THEN Array([y \in 1..h |-> <<samples[y]>>])
                                     ELSE <<List(samples)>>,
                     axis |-> axis,
                     num_questions |-> nq,
                     num_answers |-> na,
                     table_format |-> f]
    /\ ret = NoRet
    /\ pc = "call"
    /\ NoGrader

SpecFallback == InitFallback /\ [][ExtractSeparators]_vars

\* ------------------------------------------------------------------------
\* extract_separators on an all-zero grid mask, in both modes
\* ------------------------------------------------------------------------
\* all-zero masks of up to MaxMaskH x MaxMaskH pixels
InitZero ==
    /\ \E h \in 1..MaxMaskH : \E w \in 1..MaxMaskH :
          call \in [op : {"extract_separators, both modes"},
                    grid_mask : {GridMask(h, w, {}, {}) \o <<>>},
                    axis : Axes,
                    num_questions : 1..MaxQuestions,
                    num_answers : 1..MaxAnswers,
                    table_format : TableFormats]
    /\ ret = NoRet
    /\ pc = "call"
    /\ NoGrader

\* the same mask without a Table Shape (fallback) and with it (uniform spacing)
ExtractSeparatorsBothModes ==
    /\ pc = "call"
    /\ call.op = "extract_separators, both modes"
    /\ ret' = [fallback |-> extract_separators(call.grid_mask, call.axis, 0, 0, ""),
               uniform |-> extract_separators(call.grid_mask, call.axis,
                                              call.num_questions, call.num_answers,
                                              call.table_format)]
    /\ pc' = "return"
    /\ UNCHANGED <<call, grader, images, results, log>>

SpecZero == InitZero /\ [][ExtractSeparatorsBothModes]_vars

\* cells of every shape up to MaxCellSide x MaxCellSide, zero-area ones
\* included, over the intensities below, at and above the level 128
Intensities == {0, 128, 255}
CellImages ==
    UNION {UNION {[1..h -> [1..w -> Intensities]] : w \in 0..MaxCellSide} :
           h \in 0..MaxCellSide}
InkThresholds == {DefaultInkThreshold, [num |-> 0, den |-> 1],
                  [num |-> 1, den |-> 2], [num |-> 1, den |-> 1]}

DetectCalls ==
    [op : {"detect_filled_cell"},
     cell_image : CellImages,
     ink_threshold : InkThresholds]

InitDetect ==
    /\ call \in DetectCalls
    /\ ret = NoRet
    /\ pc = "call"
    /\ NoGrader

DetectFilledCell ==
    /\ pc = "call"
    /\ call.op = "detect_filled_cell"
    /\ ret' = detect_filled_cell(call.cell_image, call.ink_threshold)
    /\ pc' = "return"
    /\ UNCHANGED <<call, grader, images, results, log>>

SpecDetect == InitDetect /\ [][DetectFilledCell]_vars

\* detect_filled_cell applied to two cells of the same size at one threshold:
\* strips of one row of up to MaxStripLen pixels
StripCells(n) == [1..1 -> [1..n -> Intensities]]
DetectPairCalls ==
    UNION {[op : {"detect_filled_cell twice"},
            cell_image : StripCells(n),
            other_image : StripCells(n),
            ink_threshold : InkThresholds] : n \in 0..MaxStripLen}

InitDetectPair ==
    /\ call \in DetectPairCalls
    /\ ret = NoRet
    /\ pc = "call"
    /\ NoGrader

DetectFilledCellTwice ==
    /\ pc = "call"
    /\ call.op = "detect_filled_cell twice"
    /\ ret' = <<detect_filled_cell(call.cell_image, call.ink_threshold),
                detect_filled_cell(call.other_image, call.ink_threshold)>>
    /\ pc' = "return"
    /\ UNCHANGED <<call, grader, images, results, log>>

SpecDetectPair == InitDetectPair /\ [][DetectFilledCellTwice]_vars

\* grade_student_answers on the answer codes of up to MaxQuestions questions
\* and as many correct indices, as process_student_page calls it; the point
\* schemes are the default one and one that penalises an unanswered question
\* (points in hundredths)
PointSchemes ==
    {DefaultGradingRule,
     [correct_points |-> 200, incorrect_points |-> -50, no_answer_points |-> -10]}
GradeCalls ==
    UNION {[op : {"grade_student_answers"},
            student_answers : [1..n -> (-2)..(MaxAnswers - 1)],
            correct_answers : [1..n -> 0..(MaxAnswers - 1)],
            grading_rule : PointSchemes] : n \in 0..MaxQuestions}

InitGrade ==
    /\ call \in GradeCalls
    /\ ret = NoRet
    /\ pc = "call"
    /\ NoGrader

GradeStudentAnswers ==
    /\ pc = "call"
    /\ call.op = "grade_student_answers"
    /\ ret' = grade_student_answers(call.student_answers, call.correct_answers,
                                    call.grading_rule)
    /\ pc' = "return"
    /\ UNCHANGED <<call, grader, images, results, log>>

SpecGrade == InitGrade /\ [][GradeStudentAnswers]_vars

\* _get_issues_flag on page results with every combination of the two flags
\* and every error message process_student_page stores: none, the
\* validator's messages and the texts of the exceptions
ErrorMessages ==
    {""}
    \cup {MismatchMessage(axisName, found, expected) :
             axisName \in {"Horizontal", "Vertical"},
             found \in 0..(MaxQuestions + 2), expected \in 3..(MaxQuestions + 2)}
    \cup {"No contours found in grid mask", "cv2.error: preprocess_image",
          "cv2.error: perspective_correction", "could not broadcast input array",
          "index out of bounds"}
IssueResults ==
    {[StudentResult(StudentId(0)) EXCEPT !.has_extraction_issues = x,
                                         !.has_ambiguous_answers = a,
                                         !.error_message = m] :
        x \in BOOLEAN, a \in BOOLEAN, m \in ErrorMessages}

InitIssues ==
    /\ call \in [op : {"_get_issues_flag"}, self : IssueResults]
    /\ ret = NoRet
    /\ pc = "call"
    /\ NoGrader

GetIssuesFlag ==
    /\ pc = "call"
    /\ call.op = "_get_issues_flag"
    /\ ret' = _get_issues_flag(call.self)
    /\ pc' = "return"
    /\ UNCHANGED <<call, grader, images, results, log>>

SpecIssues == InitIssues /\ [][GetIssuesFlag]_vars

\* four points in an order that walks around a strictly convex quadrilateral
Cross(o, a, b) == (a[1] - o[1]) * (b[2] - o[2]) - (a[2] - o[2]) * (b[1] - o[1])
ConvexInOrder(q) ==
    \/ \A k \in 1..4 : Cross(q[k], q[(k % 4) + 1], q[((k + 1) % 4) + 1]) > 0
    \/ \A k \in 1..4 : Cross(q[k], q[(k % 4) + 1], q[((k + 1) % 4) + 1]) < 0

Perm4 == {p \in [1..4 -> 1..4] : \A i, j \in 1..4 : p[i] = p[j] => i = j}
Permuted(c, p) == [k \in 1..4 |-> c[p[k]]]

Points == (0..MaxCoord) \X (0..MaxCoord)
\* the four corners of a convex quadrilateral, in any order
ConvexQuads == {c \in [1..4 -> Points] : \E p \in Perm4 : ConvexInOrder(Permuted(c, p))}

InitCorners ==
    /\ call \in [op : {"order_corners"}, corners : ConvexQuads]
    /\ ret = NoRet
    /\ pc = "call"
    /\ NoGrader

OrderCorners ==
    /\ pc = "call"
    /\ call.op = "order_corners"
    /\ ret' = order_corners(call.corners)
    /\ pc' = "return"
    /\ UNCHANGED <<call, grader, images, results, log>>

SpecCorners == InitCorners /\ [][OrderCorners]_vars

\* ------------------------------------------------------------------------
\* Pages and graders
\* ------------------------------------------------------------------------
\* a rectified binary image of h x w pixels: optionally ruled on its border
\* and middle lines, with 2 x 2 pixel marks at the given top-left corners
RectImage(h, w, ruled, marks) ==
    Array([y \in 1..h |-> [x \in 1..w |->
        IF \/ ruled /\ (y - 1 \in {0, h \div 2, h - 1} \/ x - 1 \in {0, w \div 2, w - 1})
           \/ \E mk \in marks : /\ y - 1 \in {mk[1], mk[1] + 1}
                                /\ x - 1 \in {mk[2], mk[2] + 1}
          THEN 255 ELSE 0]])

\* where a mark may sit: one spot in each quadrant
MarkSpots(h, w) == {h \div 4, (5 * h) \div 8} \X {w \div 4, (5 * w) \div 8}

RectExtents == {SmallRect, LargeRect}

\* the large square image with every set of marks, and every extent blank and ruled
RectImages ==
    {RectImage(LargeRect, LargeRect, FALSE, marks) :
        marks \in SUBSET MarkSpots(LargeRect, LargeRect)}
    \cup {RectImage(h, w, ruled, {}) :
             h \in RectExtents, w \in RectExtents, ruled \in BOOLEAN}

ZeroImage(m) == Array([y \in 1..Rows(m) |-> [x \in 1..Cols(m) |-> 0]])

\* a page image with one long stroke, and ones without
StrokePage == <<<<255, 255>>>>
StrokelessPages == {<<<<0, 0>>>>, <<<<255, 0>>>>, <<<<0, 255>>>>}

Faults == {"preprocess_image", "perspective_correction", "preprocess_rectified",
           "extract_cell_regions"}
DebugOutcomes == {"saved", "write_failed", "render_failed"}

Page(fault, preprocessed, rect_bin, rect_pre, debug) ==
    [fault |-> fault, preprocessed |-> preprocessed, rect_bin |-> rect_bin,
     rect_pre |-> rect_pre, debug |-> debug]

SampleRect == RectImage(LargeRect, LargeRect, FALSE, {})
MarkedRect(marks) == RectImage(LargeRect, LargeRect, FALSE, marks)
ThreeMarks ==
    {<<LargeRect \div 4, LargeRect \div 4>>,
     <<LargeRect \div 4, (5 * LargeRect) \div 8>>,
     <<(5 * LargeRect) \div 8, LargeRect \div 4>>}
OneMark == {<<LargeRect \div 4, LargeRect \div 4>>}
SmallSampleRect == RectImage(SmallRect, SmallRect, FALSE, {})

\* pages no library call raises on: every rectified image, the unmarked ones
\* also with an empty rectified mask, and every end of the debug rendering
GoodPages ==
    {Page("none", StrokePage, r, r, "saved") : r \in RectImages}
    \cup {Page("none", StrokePage, ZeroImage(r), r, "saved") :
             r \in {RectImage(h, w, TRUE, {}) : h \in RectExtents, w \in RectExtents}}
    \cup {Page("none", StrokePage, r, r, d) :
             r \in {SampleRect, SmallSampleRect, MarkedRect(OneMark)},
             d \in DebugOutcomes}
FaultyPages ==
    {Page(f, StrokePage, r, r, "saved") : f \in Faults, r \in {SampleRect, SmallSampleRect}}
TablelessPages == {Page("none", m, SampleRect, SampleRect, "saved") : m \in StrokelessPages}

Pages == GoodPages \cup FaultyPages \cup TablelessPages

\* the pages of the documents given to process_pdf: a page that raises in a
\* library call, a page without a table, a small square page, and large
\* square pages with three marks and with one
PdfPages ==
    {Page("preprocess_image", StrokePage, SampleRect, SampleRect, "saved"),
     Page("none", <<<<0, 0>>>>, SampleRect, SampleRect, "saved"),
     Page("none", StrokePage, SmallSampleRect, SmallSampleRect, "saved"),
     Page("none", StrokePage, MarkedRect(ThreeMarks), MarkedRect(ThreeMarks), "saved"),
     Page("none", StrokePage, MarkedRect(OneMark), MarkedRect(OneMark), "saved")}

\* the documents convert_from_path may return: up to MaxPages pages
RECURSIVE Documents(_)
Documents(n) ==
    IF n = 0 THEN {<<>>}
    ELSE Documents(n - 1)
         \cup {Append(d, p) : d \in {e \in Documents(n - 1) : Len(e) = n - 1},
                               p \in PdfPages}

GradingRules == {DefaultGradingRule}

\* every OMRGrader the constructor accepts, within the bounds
Graders ==
    {g.value : g \in {c \in
        UNION {UNION {{OMRGrader(ca, q, a, f, rule) :
                          ca \in [1..q -> 0..(a - 1)], f \in TableFormats,
                          rule \in GradingRules} :
                      a \in 1..MaxAnswers} : q \in 1..MaxQuestions} : c.ok}}

\* ------------------------------------------------------------------------
\* process_student_page on one page
\* ------------------------------------------------------------------------
InitPage ==
    /\ grader \in Graders
    /\ call \in [op : {"process_student_page"}, image : Pages,
                  student_id : {StudentId(0)}, cell_margin_trim : {CellMarginTrim}]
    /\ ret = NoRet
    /\ pc = "call"
    /\ images = <<>>
    /\ results = <<>>
    /\ log = <<>>

ProcessStudentPage ==
    /\ pc = "call"
    /\ call.op = "process_student_page"
    /\ \E r \in {process_student_page(grader, call.image, call.student_id,
                                      call.cell_margin_trim)} :
           /\ ret' = r.result
           /\ grader' = [grader EXCEPT !.fields = r.fields]
           /\ log' = Append(log, [trace |-> r.trace, caught |-> r.caught])
    /\ pc' = "return"
    /\ UNCHANGED <<call, images, results>>

SpecPage == InitPage /\ [][ProcessStudentPage]_vars

\* ------------------------------------------------------------------------
\* _extract_student_answers on answer sheets of one pixel per cell
\* ------------------------------------------------------------------------
\* a sheet is one vector of L filled / unfilled options per question
Sheets(nq, L) == [1..nq -> [1..L -> BOOLEAN]]

\* the preprocessed image of a sheet: a header row and a header column, then
\* one pixel per cell, white (255) where the option is filled
SheetImage(sheet, L, table_format) ==
    IF table_format = "columns=questions"
      THEN Array([y \in 1..(L + 1) |-> [x \in 1..(Len(sheet) + 1) |->
                     IF y > 1 /\ x > 1 /\ sheet[x - 1][y - 1] THEN 255 ELSE 0]])
      ELSE Array([y \in 1..(Len(sheet) + 1) |-> [x \in 1..(L + 1) |->
                     IF y > 1 /\ x > 1 /\ sheet[y - 1][x - 1] THEN 255 ELSE 0]])

\* a separator on every pixel boundary of an axis of n pixels
EverySeparator(n) == List([k \in 1..(n + 1) |-> k - 1])

\* the same questions in the opposite order
Reversed(sheet) == List([q \in 1..Len(sheet) |-> sheet[Len(sheet) + 1 - q]])

\* one grader per number of questions and orientation
SheetGraders ==
    {g \in Graders : /\ g.num_answers = MaxAnswers
                     /\ \A i \in 1..g.num_questions : g.correct_answers[i] = 0}

\* two pages for the same grader: a sheet, then its questions in reverse
InitAnswers ==
    /\ grader \in SheetGraders
    /\ \E L \in 0..MaxAnswers : \E sheet \in Sheets(grader.num_questions, L) :
          call = [op |-> "_extract_student_answers",
                  sheets |-> <<List(sheet), Reversed(sheet)>>,
                  options |-> L,
                  cell_margin_trim |-> CellMarginTrim]
    /\ ret = NoRet
    /\ pc = "call"
    /\ images = <<>>
    /\ results = <<>>
    /\ log = <<>>

ExtractStudentAnswers ==
    /\ pc = "call"
    /\ call.op = "_extract_student_answers"
    /\ \E preprocessed \in {SheetImage(call.sheets[Len(results) + 1], call.options,
                                        grader.table_format)} :
          \E r \in {_extract_student_answers(grader, preprocessed,
                                              EverySeparator(Rows(preprocessed)),
                                              EverySeparator(Cols(preprocessed)),
                                              call.cell_margin_trim)} :
             /\ ret' = r
             /\ results' = Append(results, r)
    /\ pc' = IF Len(results) + 1 = Len(call.sheets) THEN "return" ELSE "call"
    /\ UNCHANGED <<call, grader, images, log>>

SpecAnswers == InitAnswers /\ [][ExtractStudentAnswers]_vars

\* ------------------------------------------------------------------------
\* get_question_cells on the cell grid of an image whose pixels are numbered
\* ------------------------------------------------------------------------
\* an image of n x n pixels, the pixel of row y and column x (0-based)
\* holding y * n + x + 1
PositionImage(n) == Array([y \in 1..n |-> [x \in 1..n |-> (y - 1) * n + x]])

\* lines 279 and 286 of omr_grader.py for one question index of the loop
InitCells ==
    /\ call \in {c \in [op : {"get_question_cells"},
                         horizontal_separators : SepLists,
                         vertical_separators : SepLists,
                         num_questions : 1..MaxQuestions,
                         num_answers : 1..MaxAnswers,
                         table_format : TableFormats,
                         question_index : 0..(MaxQuestions - 1)] :
                      c.question_index < c.num_questions}
    /\ ret = NoRet
    /\ pc = "call"
    /\ NoGrader

GetQuestionCells ==
    /\ pc = "call"
    /\ call.op = "get_question_cells"
    /\ \E cell_grid \in {extract_cell_regions(PositionImage(MaxSepCoord),
                                                call.horizontal_separators,
                                                call.vertical_separators)} :
          IF cell_grid.ok
            THEN /\ ret' = get_question_cells(cell_grid.value, call.question_index,
                                              call.table_format)
                 /\ log' = <<"extract_cell_regions", "get_question_cells">>
            ELSE /\ ret' = cell_grid
                 /\ log' = <<"extract_cell_regions">>
    /\ pc' = "return"
    /\ UNCHANGED <<call, grader, images, results>>

SpecCells == InitCells /\ [][GetQuestionCells]_vars

\* ------------------------------------------------------------------------
\* extract_cell_regions on an image whose pixels are numbered
\* ------------------------------------------------------------------------
\* the separator lists of distinct coordinates over 0..MaxSepCoord, in any
\* order, of up to MaxSepCoord separators
InitRegions ==
    /\ \E m \in 0..MaxSepCoord : \E n \in 0..MaxSepCoord :
       \E h \in {s \in [1..m -> 0..MaxSepCoord] :
                    \A a \in 1..m : \A b \in 1..m : s[a] = s[b] => a = b} :
       \E v \in {s \in [1..n -> 0..MaxSepCoord] :
                    \A a \in 1..n : \A b \in 1..n : s[a] = s[b] => a = b} :
          call = [op |-> "extract_cell_regions",
                  horizontal_separators |-> List(h),
                  vertical_separators |-> List(v)]
    /\ ret = NoRet
    /\ pc = "call"
    /\ NoGrader

ExtractCellRegions ==
    /\ pc = "call"
    /\ call.op = "extract_cell_regions"
    /\ ret' = extract_cell_regions(PositionImage(MaxSepCoord),
                                   call.horizontal_separators,
                                   call.vertical_separators)
    /\ pc' = "return"
    /\ UNCHANGED <<call, grader, images, results, log>>

SpecRegions == InitRegions /\ [][ExtractCellRegions]_vars

\* _extract_student_answers on one question whose option cells are squares
\* of TrimCellSide pixels: blank, inked on the border pixels only, inked
\* inside the border only, or inked all over
CellPatterns == {"blank", "border", "centre", "full"}
PatternPixel(pattern, y, x) ==
    LET border == y \in {1, TrimCellSide} \/ x \in {1, TrimCellSide}
    IN  IF \/ pattern = "full"
           \/ pattern = "border" /\ border
           \/ pattern = "centre" /\ ~border
          THEN 255 ELSE 0

\* the preprocessed image: a header band, then the option cells of the question
CellsImage(patterns, table_format) ==
    LET along == (Len(patterns) + 1) * TrimCellSide
        across == 2 * TrimCellSide
        pixel(u, v) ==      \* u runs along the options, v across the questions
            IF u > TrimCellSide /\ v > TrimCellSide
              THEN PatternPixel(patterns[(u - 1) \div TrimCellSide],
                                ((u - 1) % TrimCellSide) + 1,
                                ((v - 1) % TrimCellSide) + 1)
              ELSE 0
    IN  IF table_format = "columns=questions"
          THEN Array([y \in 1..along |-> [x \in 1..across |-> pixel(y, x)]])
          ELSE Array([y \in 1..across |-> [x \in 1..along |-> pixel(x, y)]])

\* a separator every TrimCellSide pixels of an axis of n pixels
CellSeparators(n) == List([k \in 1..(n \div TrimCellSide + 1) |-> (k - 1) * TrimCellSide])

InitTrim ==
    /\ grader \in {g \in SheetGraders : g.num_questions = 1}
    /\ call \in [op : {"_extract_student_answers, ruled cells"},
                  patterns : [1..MaxAnswers -> CellPatterns],
                  cell_margin_trim : {0, CellMarginTrim, 2 * CellMarginTrim}]
    /\ ret = NoRet
    /\ pc = "call"
    /\ images = <<>>
    /\ results = <<>>
    /\ log = <<>>

ExtractFromRuledCells ==
    /\ pc = "call"
    /\ call.op = "_extract_student_answers, ruled cells"
    /\ \E preprocessed \in {CellsImage(call.patterns, grader.table_format)} :
          ret' = _extract_student_answers(grader, preprocessed,
                                          CellSeparators(Rows(preprocessed)),
                                          CellSeparators(Cols(preprocessed)),
                                          call.cell_margin_trim)
    /\ pc' = "return"
    /\ UNCHANGED <<call, grader, images, results, log>>

SpecTrim == InitTrim /\ [][ExtractFromRuledCells]_vars

\* ------------------------------------------------------------------------
\* omr_grader.py : OMRGrader.process_pdf
\* ------------------------------------------------------------------------
\* the columns pandas gives a DataFrame built from a list of dictionaries:
\* every key, in the order of first appearance
RECURSIVE Columns(_, _)
Columns(data, seen) ==
    IF Len(data) = 0 THEN seen
    ELSE Columns(Tail(data),
                 seen \o SelectSeq(List([k \in 1..Len(data[1]) |-> data[1][k][1]]),
                                   LAMBDA key : \A j \in 1..Len(seen) : seen[j] # key))

\* the row's value for a column; a missing key is NaN
CellValue(row_dict, column) ==
    IF \E k \in 1..Len(row_dict) : row_dict[k][1] = column
      THEN row_dict[CHOOSE k \in 1..Len(row_dict) : row_dict[k][1] = column][2]
      ELSE "NaN"

\* pd.DataFrame(data)
DataFrame(data, columns) ==
    [columns |-> columns,
     rows |-> Array([r \in 1..Len(data) |->
                       [c \in 1..Len(columns) |-> CellValue(data[r], columns[c])]])]

_results_to_dataframe(student_results) ==
    DataFrame(List([k \in 1..Len(student_results) |-> to_dict(student_results[k])]),
              Columns(List([k \in 1..Len(student_results) |->
                               to_dict(student_results[k])]), <<>>))

\* graders whose answer key is option 0 throughout
PdfGraders ==
    {g \in Graders : \A i \in 1..g.num_questions : g.correct_answers[i] = 0}

Init ==
    /\ grader \in PdfGraders
    /\ call = [op |-> "process_pdf"]
    /\ ret = NoRet
    /\ pc = "convert"
    /\ images = <<>>
    /\ results = <<>>
    /\ log = <<>>

\* images = convert_from_path(pdf_path); results = []
ConvertFromPath ==
    /\ pc = "convert"
    /\ images' \in Documents(MaxPages)
    /\ results' = <<>>
    /\ pc' = "loop"
    /\ UNCHANGED <<call, ret, grader, log>>

\* one pass of the loop over enumerate(images)
ProcessPage ==
    /\ pc = "loop"
    /\ Len(results) < Len(images)
    /\ \E r \in {process_student_page(grader, images[Len(results) + 1],
                                      StudentId(Len(results)), CellMarginTrim)} :
           /\ results' = Append(results, r.result)
           /\ grader' = [grader EXCEPT !.fields = r.fields]
           /\ log' = Append(log, [trace |-> r.trace, caught |-> r.caught])
    /\ UNCHANGED <<call, ret, pc, images>>

\* df = self._results_to_dataframe(results); return df
ResultsToDataframe ==
    /\ pc = "loop"
    /\ Len(results) = Len(images)
    /\ ret' = _results_to_dataframe(results)
    /\ pc' = "done"
    /\ UNCHANGED <<call, grader, images, results, log>>

Next == ConvertFromPath \/ ProcessPage \/ ResultsToDataframe

Spec == Init /\ [][Next]_vars

\* ------------------------------------------------------------------------
\* process_student_page run by workers that share one OMRGrader
\* ------------------------------------------------------------------------
Workers == {1, 2}

\* pages whose line masks differ: a page without a table, a small page the
\* validator rejects, a page with one mark, and a page with a shorter stroke
WorkerPages ==
    {Page("none", <<<<0, 0>>>>, SampleRect, SampleRect, "saved"),
     Page("none", StrokePage, SmallSampleRect, SmallSampleRect, "saved"),
     Page("none", StrokePage, MarkedRect(OneMark), MarkedRect(OneMark), "saved"),
     Page("none", <<<<255, 0>>>>, SampleRect, SampleRect, "saved")}

\* the positions of a worker in process_student_page: before line 88, before
\* each of the stores of lines 90-92, before line 95, after the return
InitWorkers ==
    /\ grader \in {g \in PdfGraders : /\ g.num_questions = MaxQuestions
                                      /\ g.num_answers = MaxAnswers
                                      /\ g.table_format = "columns=questions"}
    /\ images \in [Workers -> WorkerPages]
    /\ call = [op |-> "process_student_page, shared grader",
               cell_margin_trim |-> CellMarginTrim]
    /\ pc = [w \in Workers |-> "detect"]
    /\ results = [w \in Workers |-> NoRet]
    /\ log = [w \in Workers |-> [masks |-> <<>>, read |-> <<>>, debug |-> ""]]
    /\ ret = NoRet

\* line 88: _detect_table, which stores _last_h_mask, _last_v_mask and
\* _last_grid_mask on the shared grader, or raises into the except clause
DetectTable(w) ==
    /\ pc[w] = "detect"
    /\ \E det \in {_detect_table(grader, images[w])} :
          /\ grader' = [grader EXCEPT !.fields = det.fields]
          /\ IF det.out.ok
               THEN /\ log' = [log EXCEPT ![w].masks =
                                  <<det.out.value.h_mask, det.out.value.v_mask,
                                    det.out.value.full_grid_mask>>]
                    /\ pc' = [pc EXCEPT ![w] = "store_h"]
                    /\ UNCHANGED results
               ELSE /\ results' = [results EXCEPT ![w] =
                                      Caught(StudentResult(StudentId(w - 1)), det.fields,
                                             <<"_detect_table">>, det.out).result]
                    /\ pc' = [pc EXCEPT ![w] = "done"]
                    /\ UNCHANGED log
    /\ UNCHANGED <<call, ret, images>>

\* lines 90-92: self._current_h_mask = h_mask, then _current_v_mask, then
\* _current_grid_mask
StoreMask(w) ==
    /\ pc[w] \in {"store_h", "store_v", "store_grid"}
    /\ grader' =
          IF pc[w] = "store_h"
            THEN [grader EXCEPT !.fields._current_h_mask = Stored(log[w].masks[1])]
          ELSE IF pc[w] = "store_v"
            THEN [grader EXCEPT !.fields._current_v_mask = Stored(log[w].masks[2])]
          ELSE [grader EXCEPT !.fields._current_grid_mask = Stored(log[w].masks[3])]
    /\ pc' = [pc EXCEPT ![w] = IF pc[w] = "store_h" THEN "store_v"
                               ELSE IF pc[w] = "store_v" THEN "store_grid"
                               ELSE "rest"]
    /\ UNCHANGED <<call, ret, images, results, log>>

\* lines 95-159: validation, extraction and grading work on the page alone;
\* the call of _create_debug_image reads self._current_h_mask,
\* self._current_v_mask and self._current_grid_mask. With the masks of
\* another page the rendering may succeed, fail to write or fail to render.
FinishPage(w) ==
    /\ pc[w] = "rest"
    /\ \E read \in {<<grader.fields._current_h_mask, grader.fields._current_v_mask,
                       grader.fields._current_grid_mask>>} :
       \E debug \in (IF read = <<Stored(log[w].masks[1]), Stored(log[w].masks[2]),
                                  Stored(log[w].masks[3])>>
                       THEN {images[w].debug} ELSE DebugOutcomes) :
       \E r \in {process_student_page(grader, [images[w] EXCEPT !.debug = debug],
                                        StudentId(w - 1), call.cell_margin_trim)} :
          /\ results' = [results EXCEPT ![w] = r.result]
          /\ log' = [log EXCEPT ![w].read = read, ![w].debug = debug]
    /\ pc' = [pc EXCEPT ![w] = "done"]
    /\ UNCHANGED <<call, ret, images, grader>>

NextWorkers == \E w \in Workers : DetectTable(w) \/ StoreMask(w) \/ FinishPage(w)

SpecWorkers == InitWorkers /\ [][NextWorkers]_vars

(***************************************************************************)
(* Claims about _extract_student_answers (checked under SpecAnswers)       *)
(***************************************************************************)
\* the sheet the k-th call was given, and what the call returned for it
SheetOf(k) == call.sheets[k]
AnswersOf(k) == results[k].value.student_answers

\* the code the statement gives a vector of option decisions
StatedCode(decisions) ==
    LET filled == {a \in 1..Len(decisions) : decisions[a]}
    IN  IF filled = {} THEN -1
        ELSE IF Cardinality(filled) = 1 THEN (CHOOSE a \in filled : TRUE) - 1
        ELSE -2

\* C1: for every question, _extract_student_answers gives the code -1 when no
\* option is filled, the 0-based index of the option when exactly one is
\* filled and -2 when two or more are; the page's has_ambiguous flag is true
\* exactly when some question of the page got the code -2.
C1_AnswerCodes ==
    call.op = "_extract_student_answers" =>
        \A k \in 1..Len(results) :
            /\ results[k].ok
            /\ Len(AnswersOf(k)) = Len(SheetOf(k))
            /\ \A q \in 1..Len(SheetOf(k)) :
                  AnswersOf(k)[q] = StatedCode(SheetOf(k)[q])
            /\ results[k].value.has_ambiguous
                  <=> \E q \in 1..Len(AnswersOf(k)) : AnswersOf(k)[q] = -2

\* a page with an ambiguous question followed by one answered with the second
\* option, and a page with the same questions in the opposite order
C1_Witness ==
    /\ call.op = "_extract_student_answers"
    /\ pc = "return"
    /\ SheetOf(1) = <<<<TRUE, TRUE>>, <<FALSE, TRUE>>>>
    /\ AnswersOf(1) = <<-2, 1>>
    /\ results[1].value.has_ambiguous
    /\ AnswersOf(2) = <<1, -2>>
    /\ results[2].value.has_ambiguous

\* C2: answer aggregation is total and deterministic: for every vector of
\* option decisions of length L >= 0 the code is one element of
\* {-1, -2} \cup 0..L-1, and the same vector gets the same code wherever it
\* occurs: at another question, or on another page the same OMRGrader handles.
C2_TotalAndDeterministic ==
    (call.op = "_extract_student_answers" /\ pc = "return") =>
        /\ \A k \in 1..Len(results) :
              /\ results[k].ok
              /\ DOMAIN AnswersOf(k) = DOMAIN SheetOf(k)
              /\ \A q \in 1..Len(SheetOf(k)) :
                    AnswersOf(k)[q] \in {-1, -2} \cup 0..(call.options - 1)
        /\ \A k1 \in 1..Len(results) : \A k2 \in 1..Len(results) :
              \A q1 \in 1..Len(SheetOf(k1)) : \A q2 \in 1..Len(SheetOf(k2)) :
                 SheetOf(k1)[q1] = SheetOf(k2)[q2]
                    => AnswersOf(k1)[q1] = AnswersOf(k2)[q2]

\* the same two vectors aggregated on two pages in opposite orders, the
\* ambiguous one before the other on the second page
C2_Witness ==
    /\ call.op = "_extract_student_answers"
    /\ pc = "return"
    /\ Len(results) = 2
    /\ SheetOf(1) = <<<<TRUE, FALSE>>, <<TRUE, TRUE>>>>
    /\ SheetOf(2) = <<<<TRUE, TRUE>>, <<TRUE, FALSE>>>>
    /\ AnswersOf(1) = <<0, -2>>
    /\ AnswersOf(2) = <<-2, 0>>

(***************************************************************************)
(* Claims about process_pdf (checked under Spec)                           *)
(***************************************************************************)
\* C3: process_pdf yields one StudentResult per input page, in page order; an
\* exception raised while a page is processed is caught in
\* process_student_page and makes the page's result one with
\* has_extraction_issues = true and error_message = the exception's text, and
\* the pages after it are still processed.
C3_OneResultPerPage ==
    /\ Len(results) <= Len(images)
    /\ Len(log) = Len(results)
    /\ \A k \in 1..Len(results) :
          /\ results[k].student_id = StudentId(k - 1)
          /\ log[k].caught # <<>> =>
                /\ results[k].has_extraction_issues
                /\ results[k].error_message = log[k].caught[1]
          /\ images[k].fault = "preprocess_image" <=>
                results[k].error_message = "cv2.error: preprocess_image"
          /\ ~HasContours(images[k].preprocessed) =>
                /\ results[k].has_extraction_issues
                /\ results[k].error_message = "No contours found in grid mask"
    /\ pc \in {"convert", "loop", "done"}
    /\ pc = "done" =>
          /\ Len(results) = Len(images)
          /\ Len(ret.rows) = Len(images)

\* a document whose first page raises in preprocess_image and whose second
\* page is graded
C3_Witness ==
    /\ pc = "done"
    /\ Len(images) = 2
    /\ images[1].fault = "preprocess_image"
    /\ log[1].caught = <<"cv2.error: preprocess_image">>
    /\ results[1].has_extraction_issues
    /\ results[1].error_message = "cv2.error: preprocess_image"
    /\ log[2].caught = <<>>
    /\ ~results[2].has_extraction_issues
    /\ results[2].student_id = StudentId(1)
    /\ results[2].student_answers # <<>>

(***************************************************************************)
(* Claims about validate_table_dimensions (checked under SpecValidate)     *)
(***************************************************************************)
ValidateReturned == pc = "return" /\ call.op = "validate_table_dimensions"

\* the counts of the statement: num_answers + 2 on the axis the answers run
\* along, num_questions + 2 on the other
StatedExpectedH(c) ==
    IF c.table_format = "columns=questions" THEN c.num_answers + 2
                                            ELSE c.num_questions + 2
StatedExpectedV(c) ==
    IF c.table_format = "columns=questions" THEN c.num_questions + 2
                                            ELSE c.num_answers + 2

\* C4: validate_table_dimensions returns pass exactly when the number of
\* horizontal separators is expected_h and the number of vertical separators
\* is expected_v (columns=questions: num_answers + 2 and num_questions + 2;
\* rows=questions: num_questions + 2 and num_answers + 2, the counts the
\* separator locator uses too), and every input yields a (pass/fail, message)
\* pair, never an error.
C4_ValidatorPassIffCounts ==
    ValidateReturned =>
        /\ ret[1] \in BOOLEAN
        /\ Len(ret) = 2
        /\ ret[1] <=> /\ Len(call.horizontal_separators) = StatedExpectedH(call)
                      /\ Len(call.vertical_separators) = StatedExpectedV(call)
        /\ StatedExpectedH(call) = ExpectedCount("horizontal", call.num_questions,
                                                 call.num_answers, call.table_format)
        /\ StatedExpectedV(call) = ExpectedCount("vertical", call.num_questions,
                                                 call.num_answers, call.table_format)

\* a passing table whose two expected counts differ, and a failing one
C4_Witness ==
    /\ ValidateReturned
    /\ ret[1] = TRUE
    /\ call.table_format = "rows=questions"
    /\ call.num_questions # call.num_answers

\* C6: when a found count differs from its expected count the validator
\* fails with the message "<Axis> separators mismatch: found <found>,
\* expected <expected>" for an axis that really mismatches (Horizontal when
\* the horizontal count is wrong, Vertical only when the horizontal count is
\* right), carrying that axis's counts; on pass the message is "Dimensions
\* valid" and names no axis.
C6_MessageNamesMismatchedAxis ==
    ValidateReturned =>
        LET fh == Len(call.horizontal_separators)
            fv == Len(call.vertical_separators)
            eh == StatedExpectedH(call)
            ev == StatedExpectedV(call)
        IN  /\ fh # eh =>
                ret = <<FALSE, "Horizontal separators mismatch: found "
                               \o ToString(fh) \o ", expected " \o ToString(eh)>>
            /\ (fh = eh /\ fv # ev) =>
                ret = <<FALSE, "Vertical separators mismatch: found "
                               \o ToString(fv) \o ", expected " \o ToString(ev)>>
            /\ (fh = eh /\ fv = ev) => ret = <<TRUE, "Dimensions valid">>

\* only the vertical count is wrong, and it is the one reported
C6_Witness ==
    /\ ValidateReturned
    /\ Len(call.horizontal_separators) = StatedExpectedH(call)
    /\ Len(call.vertical_separators) # StatedExpectedV(call)
    /\ ret[1] = FALSE

(***************************************************************************)
(* Claims about extract_separators (checked under SpecExtract)             *)
(***************************************************************************)
ExtractReturned == pc = "return" /\ call.op = "extract_separators"

AxisSize(c) == IF c.axis = "horizontal" THEN Rows(c.grid_mask) ELSE Cols(c.grid_mask)

\* num_answers + 2 on the axis aligned with answers, num_questions + 2 on the
\* axis aligned with questions
StatedCount(c) ==
    IF (c.axis = "horizontal") <=> (c.table_format = "columns=questions")
      THEN c.num_answers + 2 ELSE c.num_questions + 2

\* int(0.4 * spacing) >= 1, i.e. 0.4 * axis_length / (count - 1) >= 1
WindowNonEmpty(c) == 2 * AxisSize(c) >= 5 * (StatedCount(c) - 1)

\* C7 as stated: in uniform-spacing mode extract_separators returns exactly
\* expected_count coordinates for every mask, every axis length >= 1 and
\* every num_questions, num_answers >= 1.
C7_Original ==
    ExtractReturned => ret.ok /\ Len(ret.value) = StatedCount(call)

\* C7 amended: in uniform-spacing mode extract_separators raises nothing and
\* returns exactly expected_count coordinates whenever the search window is
\* at least one pixel wide (int(0.4 * axis_length / (expected_count - 1)) >= 1);
\* on a shorter axis every search window is empty and it returns the empty list.
C7_CountWhenWindowNonEmpty ==
    ExtractReturned =>
        /\ ret.ok
        /\ Len(ret.value) = IF WindowNonEmpty(call) THEN StatedCount(call) ELSE 0

\* four separators found on an axis of eight pixels
C7_Witness ==
    /\ ExtractReturned
    /\ WindowNonEmpty(call)
    /\ StatedCount(call) = 4
    /\ Len(ret.value) = 4

\* the coordinates of the fully ruled lines of the mask on the call's axis
RuledLines(c) ==
    IF c.axis = "horizontal"
      THEN {y \in 0..(Rows(c.grid_mask) - 1) :
               \A x \in 1..Cols(c.grid_mask) : c.grid_mask[y + 1][x] = 255}
      ELSE {x \in 0..(Cols(c.grid_mask) - 1) :
               \A y \in 1..Rows(c.grid_mask) : c.grid_mask[y][x + 1] = 255}

\* the pixel of the i-th of n uniformly placed lines: the pixel holding
\* i * size / (n - 1), the last line on the last pixel
UniformLine(i, size, n) == IF i = n - 1 THEN size - 1 ELSE (i * size) \div (n - 1)

\* the mask has exactly n = expected_count ruled lines, at the uniform positions
SyntheticGrid(c) ==
    LET n == StatedCount(c)
        lines == {UniformLine(i, AxisSize(c), n) : i \in 0..(n - 1)}
    IN  /\ Cardinality(lines) = n
        /\ n < AxisSize(c)          \* some pixel lies between the lines
        /\ RuledLines(c) = lines

Abs(x) == IF x >= 0 THEN x ELSE -x

\* N coordinates, the i-th within 0.4 * spacing of the i-th line
FindsTheLines(c, r) ==
    LET n == StatedCount(c)
    IN  /\ r.ok
        /\ Len(r.value) = n
        /\ \A i \in 0..(n - 1) :
              5 * (n - 1) * Abs(r.value[i + 1] - UniformLine(i, AxisSize(c), n))
                  <= 2 * AxisSize(c)

\* C8 as stated: for a mask with exactly N ruled lines at the uniform
\* positions, extraction with expected_count = N returns exactly N
\* coordinates, the i-th within 0.4 * spacing of the i-th line.
C8_Original ==
    (ExtractReturned /\ SyntheticGrid(call)) => FindsTheLines(call, ret)

\* C8 amended: for a mask with exactly N ruled lines at the uniform positions
\* on an axis on which the search window is at least one pixel wide
\* (int(0.4 * axis_length / (N - 1)) >= 1), extraction with expected_count = N
\* returns exactly N coordinates, the i-th within 0.4 * spacing of the i-th
\* line.
C8_FindsLinesWhenWindowNonEmpty ==
    (ExtractReturned /\ SyntheticGrid(call) /\ WindowNonEmpty(call)) =>
        FindsTheLines(call, ret)

\* a synthetic grid of four lines on eight pixels, located
C8_Witness ==
    /\ ExtractReturned
    /\ SyntheticGrid(call)
    /\ WindowNonEmpty(call)
    /\ StatedCount(call) = 4
    /\ ret.value = <<0, 2, 5, 7>>

(***************************************************************************)
(* Claims about process_student_page (checked under SpecPage)              *)
(***************************************************************************)
PageReturned == pc = "return" /\ call.op = "process_student_page"

\* the ruled lines of a rectified table: the rows, and the columns, that are
\* foreground from one border to the other
RuledRows(m) == {y \in 1..Rows(m) : \A x \in 1..Cols(m) : m[y][x] = 255}
RuledCols(m) == {x \in 1..Cols(m) : \A y \in 1..Rows(m) : m[y][x] = 255}

\* a table: ruled lines on both axes with cells between them
RuledTable(m) ==
    /\ RuledRows(m) # {} /\ Cardinality(RuledRows(m)) < Rows(m)
    /\ RuledCols(m) # {} /\ Cardinality(RuledCols(m)) < Cols(m)

\* the validator's message for an axis on which `found` lines were ruled
StatedMismatch(axisName, found, expected) ==
    axisName \o " separators mismatch: found " \o ToString(found)
             \o ", expected " \o ToString(expected)

\* C5: when the rectified table of a page has a number of ruled lines that
\* differs from the number the declared Table Shape implies, the page fails
\* the Dimension Validator: its result has has_extraction_issues = true with
\* a message naming the mismatched axis, the found and the expected count,
\* and no answers are extracted for it.
C5_WrongLineCountFailsValidator ==
    LET m == call.image.rect_bin
        found_h == Cardinality(RuledRows(m))
        found_v == Cardinality(RuledCols(m))
        eh == StatedExpectedH(grader)
        ev == StatedExpectedV(grader)
    IN  (/\ PageReturned
         /\ "_validate_table" \in {log[1].trace[i] : i \in 1..Len(log[1].trace)}
         /\ RuledTable(m)
         /\ found_h # eh \/ found_v # ev)
        => /\ ret.has_extraction_issues
           /\ ret.error_message \in {StatedMismatch("Horizontal", found_h, eh),
                                     StatedMismatch("Vertical", found_v, ev)}
           /\ ret.student_answers = <<>>
           /\ ret.question_scores = <<>>

(***************************************************************************)
(* Claims about order_corners (checked under SpecCorners)                  *)
(***************************************************************************)
\* C9: order_corners is invariant to the order of its input: for the four
\* corners of a convex quadrilateral every permutation of the input gives the
\* same output, the same point in each of the roles top-left, top-right,
\* bottom-right, bottom-left.
C9_PermutationInvariant ==
    (pc = "return" /\ call.op = "order_corners") =>
        \A p \in Perm4 : order_corners(Permuted(call.corners, p)) = ret

(***************************************************************************)
(* Claims about detect_filled_cell (checked under SpecDetect)              *)
(***************************************************************************)
DetectReturned == pc = "return" /\ call.op = "detect_filled_cell"

\* the pixels of a cell whose intensity is above 128
InkPixels(m) == {yx \in (1..Rows(m)) \X (1..Cols(m)) : m[yx[1]][yx[2]] > 128}

DetectPairReturned == pc = "return" /\ call.op = "detect_filled_cell twice"

\* C11: ink threshold monotonicity: at a fixed threshold, when a cell is
\* classified filled, a cell of the same size with at least as many ink
\* pixels is classified filled too; cells with the same pixel data get the
\* same classification at the same threshold.
C11_InkMonotone ==
    DetectPairReturned =>
        /\ ret[1] \in BOOLEAN /\ ret[2] \in BOOLEAN
        /\ (/\ ret[1]
            /\ Cardinality(InkPixels(call.other_image))
                  >= Cardinality(InkPixels(call.cell_image))) => ret[2]
        /\ call.cell_image = call.other_image => ret[1] = ret[2]

\* a filled cell with one ink pixel of three, and a cell with two that is
\* filled as well
C11_Witness ==
    /\ DetectPairReturned
    /\ call.ink_threshold = DefaultInkThreshold
    /\ Cardinality(InkPixels(call.cell_image)) = 1
    /\ Cardinality(InkPixels(call.other_image)) = 2
    /\ Size(call.cell_image) = 3
    /\ ret = <<TRUE, TRUE>>

(***************************************************************************)
(* Claims about grade_student_answers (checked under SpecGrade)            *)
(***************************************************************************)
GradeReturned == pc = "return" /\ call.op = "grade_student_answers"

\* the sum of the first n elements of s
RECURSIVE SumTo(_, _)
SumTo(s, n) == IF n = 0 THEN 0 ELSE SumTo(s, n - 1) + s[n]

\* C12: grade_student_answers returns one score per question and their sum
\* as total; for an answer code other than -2 the score is no_answer_points
\* when the code is -1, whatever the correct index, correct_points when the
\* code equals the correct index, and incorrect_points otherwise.
C12_ThreeValuedScheme ==
    GradeReturned =>
        LET rule == call.grading_rule
            scores == ret[1]
        IN  /\ Len(scores) = Len(call.correct_answers)
            /\ ret[2] = SumTo(scores, Len(scores))
            /\ \A i \in 1..Len(scores) :
                  call.student_answers[i] # -2 =>
                     scores[i] = IF call.student_answers[i] = -1
                                   THEN rule.no_answer_points
                                 ELSE IF call.student_answers[i] = call.correct_answers[i]
                                   THEN rule.correct_points
                                 ELSE rule.incorrect_points

\* an unanswered, then a wrongly answered question under the scheme that
\* penalises both
C12_Witness ==
    /\ GradeReturned
    /\ call.student_answers = <<-1, 1>>
    /\ call.correct_answers = <<0, 0>>
    /\ call.grading_rule.no_answer_points = -10
    /\ ret[1] = <<-10, -50>>
    /\ ret[2] = -60

\* C13 as stated: an ambiguous answer scores what the point scheme gives an
\* unanswered question, and the issue flag is true exactly when some answer
\* is -2.
C13_Original ==
    GradeReturned =>
        /\ \A i \in 1..Len(ret[1]) :
              call.student_answers[i] = -2 =>
                 ret[1][i] = call.grading_rule.no_answer_points
        /\ ret[3] <=> \E i \in 1..Len(call.student_answers) :
                         call.student_answers[i] = -2

\* C13 amended: an ambiguous answer (-2) always scores 0, whatever the point
\* scheme and the correct index are (the score of an unanswered question
\* only when no_answer_points is 0), and the issue flag is true exactly when
\* some graded answer is -2.
C13_AmbiguousScoresZero ==
    GradeReturned =>
        /\ \A i \in 1..Len(ret[1]) :
              call.student_answers[i] = -2 => ret[1][i] = 0
        /\ ret[3] <=> \E i \in 1..Len(call.student_answers) :
                         call.student_answers[i] = -2

\* an ambiguous answer graded under the scheme whose no_answer_points is not 0
C13_Witness ==
    /\ GradeReturned
    /\ call.student_answers = <<-2, 0>>
    /\ call.correct_answers = <<0, 0>>
    /\ call.grading_rule.no_answer_points = -10
    /\ ret = <<<<0, 200>>, 200, TRUE>>

(***************************************************************************)
(* Claims about the exported table (checked under Spec)                    *)
(***************************************************************************)
\* the column order of the statement for q questions
StatedColumns(q) ==
    <<"student_id">>
    \o [i \in 1..q |-> "question_" \o ToString(i) \o "_score"]
    \o <<"total_score", "issues">>

\* C14: the exported row of a page lists its columns in the order student
\* identifier, one column per question score in question order, total
\* score, issues.
C14_ColumnOrder ==
    (/\ pc = "done"
     /\ \E k \in 1..Len(results) :
           Len(results[k].question_scores) = grader.num_questions)
    => /\ ret.columns = StatedColumns(grader.num_questions)
       /\ \A k \in 1..Len(results) :
             Len(results[k].question_scores) = grader.num_questions =>
                [j \in 1..Len(to_dict(results[k])) |-> to_dict(results[k])[j][1]]
                    = StatedColumns(grader.num_questions)

(***************************************************************************)
(* Claims about _get_issues_flag (checked under SpecIssues)                *)
(***************************************************************************)
IssuesReturned == pc = "return" /\ call.op = "_get_issues_flag"

\* the issues string of the statement, case by case
StatedIssues(x, a, m) ==
    IF x /\ a /\ m # "" THEN "extraction_issues; ambiguous_answers; " \o m
    ELSE IF x /\ a THEN "extraction_issues; ambiguous_answers"
    ELSE IF x /\ m # "" THEN "extraction_issues; " \o m
    ELSE IF a /\ m # "" THEN "ambiguous_answers; " \o m
    ELSE IF x THEN "extraction_issues"
    ELSE IF a THEN "ambiguous_answers"
    ELSE IF m # "" THEN m
    ELSE "OK"

\* C15: the issues string of a page result is "OK" exactly when
\* has_extraction_issues is false, has_ambiguous_answers is false and the
\* error message is empty; otherwise it is the "; "-joined list of exactly
\* the applicable entries in the order extraction_issues, ambiguous_answers,
\* error message, with no "OK" entry.
C15_IssuesString ==
    IssuesReturned =>
        LET r == call.self
            clear == /\ ~r.has_extraction_issues
                     /\ ~r.has_ambiguous_answers
                     /\ r.error_message = ""
        IN  /\ ret = "OK" <=> clear
            /\ ret = StatedIssues(r.has_extraction_issues, r.has_ambiguous_answers,
                                  r.error_message)

\* a flagged page with the validator's message
C15_Witness ==
    /\ IssuesReturned
    /\ call.self.has_extraction_issues
    /\ ~call.self.has_ambiguous_answers
    /\ call.self.error_message = "Horizontal separators mismatch: found 0, expected 3"
    /\ ret = "extraction_issues; Horizontal separators mismatch: found 0, expected 3"

(***************************************************************************)
(* Claims about the validator's place in process_student_page (SpecPage)   *)
(***************************************************************************)
\* the calls process_student_page made, in order
PageTrace == log[1].trace
PageCalls == {PageTrace[i] : i \in 1..Len(PageTrace)}
DebugEntries == {"debug:" \o d : d \in DebugOutcomes}

\* the validator ran on the page and answered <<FALSE, message>>
ValidatorFailed ==
    /\ PageReturned
    /\ "_validate_table" \in PageCalls
    /\ LET verdict == _validate_table(grader, call.image.rect_pre, call.image.rect_bin)
       IN  verdict.ok /\ ~verdict.value[1]
ValidatorMessage ==
    _validate_table(grader, call.image.rect_pre, call.image.rect_bin).value[2]

\* C16: when the Dimension Validator fails for a page, process_student_page
\* still returns a result: has_extraction_issues = true, error_message = the
\* validator's message, no answers and no scores; a debug rendering with the
\* separators found is attempted before returning, and a failure of the
\* rendering, or of the separator extraction feeding it, is swallowed and
\* changes nothing in the result.
C16_FlaggedNotDiscarded ==
    ValidatorFailed =>
        /\ ret = [StudentResult(call.student_id) EXCEPT
                     !.has_extraction_issues = TRUE,
                     !.error_message = ValidatorMessage]
        /\ ret.student_answers = <<>> /\ ret.question_scores = <<>>
        /\ log[1].caught = <<>>
        /\ Len(PageTrace) >= 3
        /\ PageTrace[3] = "_extract_separators_from_rectified"
        /\ IF call.image.fault = "preprocess_rectified"
             THEN Len(PageTrace) = 3
             ELSE Len(PageTrace) = 4 /\ PageTrace[4] = "debug:" \o call.image.debug

\* a page whose validator fails and whose separator extraction for the debug
\* rendering raises
C16_Witness ==
    /\ ValidatorFailed
    /\ call.image.fault = "preprocess_rectified"
    /\ ret.has_extraction_issues
    /\ ret.error_message = "Horizontal separators mismatch: found 0, expected 3"
    /\ PageTrace = <<"_detect_table", "_validate_table",
                     "_extract_separators_from_rectified">>

\* the page was graded: answers extracted and scored
PageGraded == PageReturned /\ "grade_student_answers" \in PageCalls

\* the result of the same page when its debug image is rendered and saved
ResultWhenDebugSaved ==
    process_student_page([grader EXCEPT !.fields = NoMaskFields],
                         [call.image EXCEPT !.debug = "saved"],
                         call.student_id, call.cell_margin_trim).result

\* C17: a failure of the debug rendering never affects the Page Result: for
\* a page graded successfully the answers, question scores, total score,
\* ambiguous flag, extraction-issue flag and error message are the same
\* whether _create_debug_image succeeds, fails in rendering or fails to
\* write the file.
C17_DebugFailureChangesNothing ==
    (PageGraded /\ call.image.debug # "saved") =>
        /\ ret = ResultWhenDebugSaved
        /\ ~ret.has_extraction_issues
        /\ ret.error_message = ""
        /\ Len(ret.student_answers) = grader.num_questions
        /\ Len(ret.question_scores) = grader.num_questions

\* a page with one mark, graded, whose debug rendering failed
C17_Witness ==
    /\ PageGraded
    /\ call.image.debug = "render_failed"
    /\ grader.num_answers = 2
    /\ grader.correct_answers = <<0, 0>>
    /\ ret.student_answers = <<0, -1>>
    /\ ret.question_scores = <<100, 0>>
    /\ ret.total_score = 100
    /\ ~ret.has_extraction_issues

(***************************************************************************)
(* Claims about the trimming of cells (checked under SpecTrim)             *)
(***************************************************************************)
TrimReturned == pc = "return" /\ call.op = "_extract_student_answers, ruled cells"

\* the pixels of a cell that are left when the margin percentage is trimmed
\* from each of its four sides
StatedMargin == (TrimCellSide * call.cell_margin_trim) \div 100
StatedInner == ((StatedMargin + 1)..(TrimCellSide - StatedMargin))
               \X ((StatedMargin + 1)..(TrimCellSide - StatedMargin))

\* the classifier's answer on the trimmed sub-image of a cell
StatedDecision(pattern) ==
    LET ink == {p \in StatedInner : PatternPixel(pattern, p[1], p[2]) > 128}
    IN  /\ StatedInner # {}
        /\ Cardinality(ink) * DefaultInkThreshold.den
              >= DefaultInkThreshold.num * Cardinality(StatedInner)

\* C18: before a cell is classified in _extract_student_answers it is
\* trimmed inward on all four sides by the margin percentage
\* cell_margin_trim with trim_cell_borders, and the classifier is applied to
\* the trimmed sub-image only, which is a sub-region of the cell.
C18_ClassifiesTrimmedCell ==
    TrimReturned =>
        /\ ret.ok
        /\ ret.value.student_answers =
              <<StatedCode([a \in 1..MaxAnswers |-> StatedDecision(call.patterns[a])])>>
        /\ \A pattern \in CellPatterns :
              LET cell == Array([y \in 1..TrimCellSide |-> [x \in 1..TrimCellSide |->
                                    PatternPixel(pattern, y, x)]])
                  trimmed == trim_cell_borders(cell, call.cell_margin_trim)
              IN  /\ Rows(trimmed) = TrimCellSide - 2 * StatedMargin
                  /\ \A y \in 1..Rows(trimmed) : \A x \in 1..Cols(trimmed) :
                        trimmed[y][x] = cell[y + StatedMargin][x + StatedMargin]

\* an option inked on its border only is not an answer once the border is trimmed
C18_Witness ==
    /\ TrimReturned
    /\ call.cell_margin_trim = 2 * CellMarginTrim
    /\ call.patterns[1] = "border"
    /\ call.patterns[2] = "centre"
    /\ ret.value.student_answers = <<1>>
    /\ ~ret.value.has_ambiguous

\* the position of a call in the trace, 0 when it was not made
PositionOf(name) ==
    IF name \in PageCalls
      THEN CHOOSE i \in 1..Len(PageTrace) :
              PageTrace[i] = name /\ \A j \in 1..(i - 1) : PageTrace[j] # name
      ELSE 0

\* the validator ran on the page and answered <<TRUE, message>>
ValidatorPassed ==
    /\ PageReturned
    /\ "_validate_table" \in PageCalls
    /\ LET verdict == _validate_table(grader, call.image.rect_pre, call.image.rect_bin)
       IN  verdict.ok /\ verdict.value[1]

\* C19: in process_student_page the Dimension Validator runs before any cell
\* extraction: cell slicing, mark classification, answer aggregation and
\* grading happen only after the validator has passed for the page, and none
\* of them happens for a page on which it failed.
C19_ValidatorBeforeCells ==
    PageReturned =>
        /\ \A name \in {"_extract_student_answers", "grade_student_answers"} :
              name \in PageCalls =>
                 /\ ValidatorPassed
                 /\ 0 < PositionOf("_validate_table")
                 /\ PositionOf("_validate_table") < PositionOf(name)
        /\ ValidatorFailed =>
              /\ "_extract_student_answers" \notin PageCalls
              /\ "grade_student_answers" \notin PageCalls
              /\ ret.student_answers = <<>>
              /\ ret.question_scores = <<>>
        /\ ret.student_answers # <<>> => ValidatorPassed

\* a page graded after the validator passed
C19_Witness ==
    /\ ValidatorPassed
    /\ PageTrace = <<"_detect_table", "_validate_table",
                     "_extract_separators_from_rectified",
                     "_extract_student_answers", "grade_student_answers",
                     "debug:saved">>
    /\ ret.student_answers = <<0, -1>>

\* ------------------------------------------------------------------------
\* get_question_cells
\* ------------------------------------------------------------------------
CellsReturned ==
    /\ pc = "return"
    /\ call.op = "get_question_cells"
    /\ log = <<"extract_cell_regions", "get_question_cells">>

\* the separator lists of the call have the lengths the validator accepts
LengthsPassed ==
    validate_table_dimensions(call.horizontal_separators, call.vertical_separators,
                              call.num_questions, call.num_answers,
                              call.table_format)[1]

\* the pixels of the numbered image between rows y1, y2 and columns x1, x2
StatedCell(y1, y2, x1, x2) ==
    [y \in 1..(y2 - y1) |-> [x \in 1..(x2 - x1) |->
        (y1 + y - 1) * MaxSepCoord + x1 + x]]

\* the numbers of the pixels of a cell
PixelsOf(cell) == {cell[y][x] : y \in 1..Rows(cell), x \in 1..Cols(cell)}

\* the numbers of the pixels of header row 0 and header column 0
HeaderPixels ==
    {(y - 1) * MaxSepCoord + x : y \in 1..call.horizontal_separators[2],
                                  x \in 1..MaxSepCoord}
    \cup {(y - 1) * MaxSepCoord + x : y \in 1..MaxSepCoord,
                                       x \in 1..call.vertical_separators[2]}

\* C20: for every question index q in 0..num_questions-1 and separator lists
\* whose lengths passed the validator, get_question_cells returns exactly
\* num_answers cells in option order: the cells of grid rows 1..P in column
\* q+1 when questions are columns, of grid row q+1 in columns 1..P when
\* questions are rows; no cell of header row 0 or header column 0 is
\* returned and the index q+1 is inside the grid.
C20_QuestionCells ==
    (CellsReturned /\ LengthsPassed) =>
        LET h == call.horizontal_separators
            v == call.vertical_separators
            q == call.question_index
            P == call.num_answers
        IN  /\ ret.ok
            /\ Len(ret.value) = P
            /\ IF call.table_format = "columns=questions"
                 THEN /\ q + 1 <= Len(v) - 2
                      /\ \A a \in 1..P :
                            ret.value[a] = StatedCell(h[a + 1], h[a + 2], v[q + 2], v[q + 3])
                 ELSE /\ q + 1 <= Len(h) - 2
                      /\ \A a \in 1..P :
                            ret.value[a] = StatedCell(h[q + 2], h[q + 3], v[a + 1], v[a + 2])
            /\ \A a \in 1..P : PixelsOf(ret.value[a]) \cap HeaderPixels = {}

\* the second question of a table of two questions as rows and two options,
\* every cell one pixel: the cells returned are pixels 8 and 9 of the 3 x 3 image
C20_Witness ==
    /\ CellsReturned
    /\ LengthsPassed
    /\ call.table_format = "rows=questions"
    /\ call.num_questions = 2
    /\ call.num_answers = 2
    /\ call.question_index = 1
    /\ ret.ok
    /\ ret.value = << <<<<8>>>>, <<<<9>>>> >>

\* ------------------------------------------------------------------------
\* extract_cell_regions
\* ------------------------------------------------------------------------
RegionsReturned == pc = "return" /\ call.op = "extract_cell_regions"

\* the coordinates of a list in ascending order
Ascending(s) == SortedSeq({s[k] : k \in 1..Len(s)})

\* the numbers of the pixels between the first and the last separator of
\* both axes
StatedRectangle(h, v) ==
    IF Len(h) = 0 \/ Len(v) = 0 THEN {}
    ELSE {(y - 1) * MaxSepCoord + x : y \in (h[1] + 1)..h[Len(h)],
                                       x \in (v[1] + 1)..v[Len(v)]}

\* the grid the claim describes: Len(h) - 1 rows of Len(v) - 1 cells (none
\* for a list of fewer than two separators), cell [i][j] the pixels of rows
\* [h[i], h[i+1]) and columns [v[j], v[j+1]), the cells pairwise disjoint
\* and covering the rectangle between the first and last separators
GridAsStated(cell_grid) ==
    LET h == Ascending(call.horizontal_separators)
        v == Ascending(call.vertical_separators)
        R == Max2(0, Len(h) - 1)
        C == Max2(0, Len(v) - 1)
    IN  /\ Len(cell_grid) = R
        /\ \A i \in 1..R :
              /\ Len(cell_grid[i]) = C
              /\ \A j \in 1..C :
                    cell_grid[i][j] = StatedCell(h[i], h[i + 1], v[j], v[j + 1])
        /\ \A i \in 1..R : \A j \in 1..C : \A k \in 1..R : \A l \in 1..C :
              <<i, j>> # <<k, l>> =>
                 PixelsOf(cell_grid[i][j]) \cap PixelsOf(cell_grid[k][l]) = {}
        /\ UNION {PixelsOf(cell_grid[i][j]) : i \in 1..R, j \in 1..C}
              = (IF R = 0 \/ C = 0 THEN {} ELSE StatedRectangle(h, v))

\* the cells numpy stacks into an array: all of one shape, or of different heights
GridWhenStacked ==
    (RegionsReturned /\ ret.ok) => GridAsStated(ret.value)

\* C21: extract_cell_regions sorts both separator lists ascending and yields
\* (len(h) - 1) x (len(v) - 1) cells, cell [i][j] covering exactly rows
\* [h[i], h[i+1]) and columns [v[j], v[j+1]) of the rectified image; the
\* cells are pairwise disjoint, together cover the rectangle between the
\* first and last separators, and the result does not depend on the order in
\* which the separators were passed.
C21_CellRegions ==
    RegionsReturned =>
        /\ ret.ok
        /\ GridAsStated(ret.value)
        /\ ret = extract_cell_regions(PositionImage(MaxSepCoord),
                                      Ascending(call.horizontal_separators),
                                      Ascending(call.vertical_separators))

\* ------------------------------------------------------------------------
\* uniform-spacing extraction: order and range of the coordinates
\* ------------------------------------------------------------------------
\* C22: every separator list returned by uniform-spacing extraction is
\* strictly increasing as returned (no coordinate is repeated and sorting
\* changes nothing), and every coordinate lies in [0, axis_length - 1].
C22_StrictlyIncreasingInRange ==
    ExtractReturned =>
        /\ ret.ok
        /\ \A k \in 1..(Len(ret.value) - 1) : ret.value[k] < ret.value[k + 1]
        /\ Sorted(ret.value) = ret.value
        /\ \A k \in 1..Len(ret.value) :
              0 <= ret.value[k] /\ ret.value[k] <= AxisSize(call) - 1

\* four coordinates returned for an all-zero mask of eight pixels: the first
\* coordinate of each of the four search windows
C22_Witness ==
    /\ ExtractReturned
    /\ AxisSize(call) = MaxMaskH
    /\ RuledLines(call) = {}
    /\ Len(ret.value) = 4
    /\ ret.value[1] = 0
    /\ ret.value[4] > ret.value[3]

\* ------------------------------------------------------------------------
\* the answers and scores of a graded page
\* ------------------------------------------------------------------------
\* the points of one answer code against the key, under the grader's rule
StatedPoints(answer, correct) ==
    IF answer = -2 THEN 0
    ELSE IF answer = -1 THEN grader.grading_rule.no_answer_points
    ELSE IF answer = correct THEN grader.grading_rule.correct_points
    ELSE grader.grading_rule.incorrect_points

\* C23: for every page that passes the Dimension Validator and is graded,
\* the result's answer list has exactly num_questions entries, each in
\* {-2, -1, 0..num_answers-1}, and question_scores has the same number of
\* entries, the i-th score belonging to the i-th question.
C23_AnswersAndScoresPerQuestion ==
    (PageReturned /\ "grade_student_answers" \in PageCalls) =>
        /\ ValidatorPassed
        /\ Len(ret.student_answers) = grader.num_questions
        /\ \A i \in 1..Len(ret.student_answers) :
              ret.student_answers[i] \in {-2, -1} \cup 0..(grader.num_answers - 1)
        /\ Len(ret.question_scores) = grader.num_questions
        /\ \A i \in 1..Len(ret.question_scores) :
              ret.question_scores[i] =
                 StatedPoints(ret.student_answers[i], grader.correct_answers[i])

\* two questions of two options: the first answered with its last option and
\* wrong, the second left blank
C23_Witness ==
    /\ PageReturned
    /\ "grade_student_answers" \in PageCalls
    /\ grader.num_questions = 2
    /\ grader.num_answers = 2
    /\ grader.correct_answers = <<0, 0>>
    /\ ret.student_answers = <<1, -1>>
    /\ ret.question_scores = <<-25, 0>>

\* ------------------------------------------------------------------------
\* extract_separators in fallback mode (checked under SpecFallback)
\* ------------------------------------------------------------------------
FallbackReturned ==
    /\ pc = "return"
    /\ call.op = "extract_separators"
    /\ (call.num_questions = 0 \/ call.num_answers = 0 \/ call.table_format = "")

\* the samples of the call's mask along its axis
Samples ==
    IF call.axis = "horizontal"
      THEN List([k \in 1..Rows(call.grid_mask) |-> call.grid_mask[k][1]])
      ELSE call.grid_mask[1]

\* the coordinates whose sample is above 30% of the peak
KeptOf(samples, peak) == {k \in 0..(Len(samples) - 1) : 10 * samples[k + 1] > 3 * peak}
Kept == KeptOf(Samples, MaxSeq(Samples))

\* j and k are kept coordinates of the same run: from the lower to the upper
\* every kept coordinate has the next kept one at most 5 further
SameRun(kept, j, k) ==
    \A m \in kept : (Min2(j, k) <= m /\ m < Max2(j, k)) =>
        \E n \in kept : m < n /\ n <= m + 5
RunsOf(kept) == {{j \in kept : SameRun(kept, j, k)} : k \in kept}

RECURSIVE SumOf(_)
SumOf(S) == IF S = {} THEN 0 ELSE LET x == CHOOSE y \in S : TRUE IN x + SumOf(S \ {x})
TruncatedMean(run) == SumOf(run) \div Cardinality(run)

\* C24: in fallback mode extract_separators keeps the coordinates whose
\* signal is above 30% of the signal's peak and returns one separator per
\* maximal run of kept coordinates in which consecutive coordinates differ by
\* at most 5, equal to the integer-truncated mean of the run's coordinates;
\* the returned list is strictly increasing and every separator lies between
\* the first and last coordinate of its run.
C24_FallbackRuns ==
    FallbackReturned =>
        \A samples \in {Samples} : \A peak \in {MaxSeq(samples)} :
        \A runs \in {RunsOf(KeptOf(samples, peak))} :
        \A means \in {{<<run, TruncatedMean(run)>> : run \in runs}} :
           peak > 0 =>
              /\ ret.ok
              /\ Len(ret.value) = Cardinality(runs)
              /\ {ret.value[i] : i \in 1..Len(ret.value)} = {rm[2] : rm \in means}
              /\ \A i \in 1..(Len(ret.value) - 1) : ret.value[i] < ret.value[i + 1]
              /\ \A rm \in means :
                    \E first \in rm[1] : \E last \in rm[1] :
                       /\ \A k \in rm[1] : first <= k /\ k <= last
                       /\ first <= rm[2]
                       /\ rm[2] <= last

\* samples 10, 3, 0, 0, 0, 0, 10, 10: coordinate 1 is at 30% and dropped,
\* coordinate 0 is a run of its own, coordinates 6 and 7 merge into 6
C24_Witness ==
    /\ FallbackReturned
    /\ Samples = <<10, 3, 0, 0, 0, 0, 10, 10>>
    /\ Kept = {0, 6, 7}
    /\ ret.ok
    /\ ret.value = <<0, 6>>

\* ------------------------------------------------------------------------
\* extract_separators on an all-zero mask (checked under SpecZero)
\* ------------------------------------------------------------------------
ZeroReturned == pc = "return" /\ call.op = "extract_separators, both modes"

\* the first coordinate of the i-th search window (i from 0)
StatedWindowStart(i, size, n) ==
    Max2(0, (i * size) \div (n - 1) - (2 * size) \div (5 * (n - 1)))

\* C25: for an all-zero grid mask the signal is left at zero without a
\* division by zero; fallback mode then fails with the no-peaks error,
\* whereas uniform-spacing mode raises no error and returns one coordinate
\* per non-empty search window, the window's first coordinate.
C25_AllZeroMask ==
    ZeroReturned =>
        /\ ~ret.fallback.ok
        /\ ret.fallback.error = "No peaks found in signal - grid mask may be empty"
        /\ ret.uniform.ok
        /\ Len(ret.uniform.value) =
              (IF WindowNonEmpty(call) THEN StatedCount(call) ELSE 0)
        /\ \A i \in 1..Len(ret.uniform.value) :
              ret.uniform.value[i] =
                 StatedWindowStart(i - 1, AxisSize(call), StatedCount(call))

\* an all-zero mask of eight rows and three expected separators: the no-peaks
\* error without the Table Shape, coordinates 0, 3 and 7 with it
C25_Witness ==
    /\ ZeroReturned
    /\ call.axis = "horizontal"
    /\ Rows(call.grid_mask) = MaxMaskH
    /\ StatedCount(call) = 3
    /\ ~ret.fallback.ok
    /\ ret.uniform = Ok(<<0, 3, 7>>)

\* ------------------------------------------------------------------------
\* a page without a table
\* ------------------------------------------------------------------------
\* the page was preprocessed and its grid mask has no foreground pixel
GridMaskEmpty ==
    /\ PageReturned
    /\ call.image.fault # "preprocess_image"
    /\ \A grid_mask \in {extract_line_masks(call.image.preprocessed)[3]} :
          \A y \in 1..Rows(grid_mask) : \A x \in 1..Cols(grid_mask) :
             grid_mask[y][x] = 0

\* C26: if the grid mask of a page has no foreground region at all,
\* find_table_bounding_box fails with the no-table error and none of the
\* later stages (corner detection, rectification, validation, cell
\* extraction, grading, debug rendering) runs for that page; the page's
\* result has has_extraction_issues = true, a non-empty error message, and no
\* answers or scores.
C26_NoTableStopsThePage ==
    GridMaskEmpty =>
        /\ PageTrace = <<"_detect_table">>
        /\ log[1].caught = <<"No contours found in grid mask">>
        /\ ret.has_extraction_issues
        /\ ret.error_message = "No contours found in grid mask"
        /\ ret.error_message # ""
        /\ ret.student_answers = <<>>
        /\ ret.question_scores = <<>>
        /\ ret.total_score = 0
        /\ \A f \in {"_last_h_mask", "_last_v_mask", "_last_grid_mask",
                      "_current_h_mask", "_current_v_mask", "_current_grid_mask"} :
              ~grader.fields[f].set

\* a page without any stroke, given to a grader of two questions
C26_Witness ==
    /\ GridMaskEmpty
    /\ call.image.preprocessed = <<<<0, 0>>>>
    /\ grader.num_questions = 2
    /\ PageTrace = <<"_detect_table">>
    /\ ret.has_extraction_issues
    /\ ret.error_message = "No contours found in grid mask"

\* ------------------------------------------------------------------------
\* pages processed by workers sharing the grader (checked under SpecWorkers)
\* ------------------------------------------------------------------------
\* the result of the worker's page processed alone by a new grader of the
\* same configuration
ResultAlone(w) ==
    process_student_page([grader EXCEPT !.fields = NoMaskFields], images[w],
                         StudentId(w - 1), call.cell_margin_trim).result

\* C27: pages are independent: whether pages are processed one after another
\* by the same OMRGrader or by concurrent workers sharing it, a page's result
\* depends only on that page's image and the immutable run configuration;
\* the mask fields the grader stores on itself during a page are always
\* written by a page before that page reads them and never influence any
\* result field.
C27_PagesIndependent ==
    call.op = "process_student_page, shared grader" =>
        \A w \in Workers :
           /\ pc[w] = "done" => results[w] = ResultAlone(w)
           /\ pc[w] = "rest" =>
                 /\ grader.fields._current_h_mask.set
                 /\ grader.fields._current_v_mask.set
                 /\ grader.fields._current_grid_mask.set
           /\ log[w].read # <<>> =>
                 \A i \in 1..3 : log[w].read[i].set

\* worker 1 rendered its debug image with the masks of worker 2's page and
\* still returned the result its page has alone
C27_Witness ==
    /\ call.op = "process_student_page, shared grader"
    /\ pc[1] = "done"
    /\ log[1].read # <<>>
    /\ log[1].read # <<Stored(log[1].masks[1]), Stored(log[1].masks[2]),
                        Stored(log[1].masks[3])>>
    /\ log[1].debug = "render_failed"
    /\ results[1] = ResultAlone(1)
    /\ ~results[1].has_extraction_issues

ValidatedSeparators ==
    BothSeparators(grader, extract_line_masks(call.image.rect_bin)[3])

\* the lists _extract_separators_from_rectified computed for the same page
UsedSeparators == _extract_separators_from_rectified(grader, call.image)

\* C29: the separator lists actually used to slice cells (recomputed by
\* _extract_separators_from_rectified from the rectified colour image after
\* validation) always have the same lengths as the lists the Dimension
\* Validator approved (computed in _validate_table from the rectified binary
\* mask), so the counts that were validated hold for the lists that are
\* indexed.
C29_UsedListsHaveValidatedLengths ==
    (PageReturned /\ "_extract_student_answers" \in PageCalls) =>
        \A validated \in {ValidatedSeparators} : \A used \in {UsedSeparators} :
           /\ validated.ok
           /\ used.ok
           /\ Len(used.value[1]) = Len(validated.value[1])
           /\ Len(used.value[2]) = Len(validated.value[2])
           /\ validate_table_dimensions(used.value[1], used.value[2],
                                        grader.num_questions, grader.num_answers,
                                        grader.table_format)[1]

\* a graded page whose ruled lines are missing from the mask the validator
\* saw: the coordinates used differ from the validated ones, the lengths agree
C29_Witness ==
    /\ PageReturned
    /\ "grade_student_answers" \in PageCalls
    /\ call.image.rect_bin # call.image.rect_pre
    /\ ValidatedSeparators.ok
    /\ UsedSeparators.ok
    /\ UsedSeparators.value # ValidatedSeparators.value
    /\ Len(UsedSeparators.value[1]) = Len(ValidatedSeparators.value[1])

\* ------------------------------------------------------------------------
\* order_corners: the four roles
\* ------------------------------------------------------------------------
\* C30: for any four pairwise distinct input points, order_corners returns a
\* permutation of them: each input point appears exactly once in the output,
\* so the four roles top-left, top-right, bottom-right, bottom-left are held
\* by four different points.
C30_OutputIsPermutation ==
    (/\ pc = "return"
     /\ call.op = "order_corners"
     /\ \A i \in 1..4 : \A j \in 1..4 : call.corners[i] = call.corners[j] => i = j) =>
        /\ \E p \in Perm4 : ret = Permuted(call.corners, p)
        /\ \A i \in 1..4 : \A j \in 1..4 : ret[i] = ret[j] => i = j

=============================================================================
